---- MODULE Spec2Model ----
(***************************************************************************)
(* Model of the HTS resolution engine of TaxTaxi:                          *)
(*   src/TaxTaxi/us_hts_search/usitc_mapping.py  (retrying fetcher)        *)
(*   src/TaxTaxi/us_hts_search/usitc_search.py   (hierarchy resolver,      *)
(*                                                view merger, JSON cache) *)
(*                                                                         *)
(* Python strings are sequences of one-character strings, so that strip,   *)
(* replace, slicing and formatting are computed, not assumed.  A JSON      *)
(* value is a record [t, v]; a dict is a function from keys to values.     *)
(***************************************************************************)
EXTENDS Integers, Sequences, FiniteSets, TLC

VARIABLES
    \* _request_with_retry (usitc_mapping.py:177-235)
    rpc,            \* position: idle / attempt / backoff / exhausted / returned / raised
    attempt,        \* the loop variable of `for attempt in range(max_retries)`
    last_error,     \* the local last_error
    outcomes,       \* what requests.get / raise_for_status did at each attempt so far
    slept,          \* the arguments of time.sleep so far
    ret,            \* the response returned or the APIError raised
    \* the remote classification service, as fetch_exportlist sees it
    remote,         \* code asked (from = to) -> rows returned, or APIError raised
    netlog,         \* the (from, to) of every fetch_exportlist call so far
    \* search_hts_quantitative_details (usitc_search.py:392-480)
    spc,            \* position: idle / fetch_exact / fetch_ancestors / resolve / done
    hts_code,       \* the argument hts_code
    requested_line, \* the local requested_line
    ancestor_lines, \* the local ancestor_lines
    all_context,    \* the local all_context
    anc_i,          \* how many of ancestor_codes the loop of line 439 has done
    result,         \* the HTSQuantitativeResult returned
    \* merge_resolved_view (usitc_search.py:367-389), called on its own
    mrv_requested,  \* the argument requested_line
    mrv_effective,  \* the argument effective_duty_line
    mrv_resolved,   \* the dict returned
    \* the JSON cache and main (usitc_search.py:483-589, 733-774)
    file,           \* the content of RESULTS_JSON_FILE
    mpc,            \* position of main: idle / searching / done
    exit_code,      \* what main returned
    last_call,      \* the last call of save_result_to_json / get_stored_result
    ncalls,         \* how many such calls were made
    \* mapping_lookup and main (usitc_mapping.py:343-517, 613-634)
    lpc,            \* position: idle / primary / context / fallback / done
    query,          \* the argument query
    use_range,      \* the argument use_range
    max_results,    \* the argument max_results
    from_main,      \* whether main made the call
    shape,          \* which of _lookup_hybrid, _lookup_hts, _lookup_keyword runs
    raw,            \* the local raw of the function that runs
    requests_made,  \* the requests sent so far, in order
    fetched,        \* what _request_with_retry gave for each of them
    res,            \* the LookupResult returned
    lexit,          \* what main returned
    \* build_hts_range (usitc_mapping.py:132-170), called on its own
    prefix,         \* the argument prefix
    range,          \* the pair returned
    \* a function without side effect, called on its own
    called,         \* the function called, its argument and what it returned
    \* processes running save_result_to_json at the same time
    saver           \* process -> its position, its locals, what it returned

retryVars == <<rpc, attempt, last_error, outcomes, slept, ret>>

searchVars == <<spc, hts_code, requested_line, ancestor_lines, all_context,
                anc_i, result>>

mergeVars == <<mrv_requested, mrv_effective, mrv_resolved>>

cacheVars == <<file, mpc, exit_code, last_call, ncalls>>

lookupVars == <<lpc, query, use_range, max_results, from_main, shape, raw,
                requests_made, fetched, res, lexit>>

rangeVars == <<prefix, range>>

pureVars == <<called>>

raceVars == <<saver>>

vars == <<rpc, attempt, last_error, outcomes, slept, ret, remote, netlog,
          spc, hts_code, requested_line, ancestor_lines, all_context, anc_i,
          result, mrv_requested, mrv_effective, mrv_resolved, file, mpc,
          exit_code, last_call, ncalls, lpc, query, use_range, max_results,
          from_main, shape, raw, requests_made, fetched, res, lexit, prefix,
          range, called, saver>>

\* what an action of one component leaves alone
retryOthers == <<remote, netlog, searchVars, mergeVars, cacheVars, lookupVars,
                 rangeVars, pureVars, raceVars>>
searchOthers == <<retryVars, mergeVars, cacheVars, lookupVars, rangeVars,
                  pureVars, raceVars>>
mergeOthers == <<remote, netlog, retryVars, searchVars, cacheVars, lookupVars,
                 rangeVars, pureVars, raceVars>>
lookupOthers == <<remote, netlog, retryVars, searchVars, mergeVars, cacheVars,
                  rangeVars, pureVars, raceVars>>
rangeOthers == <<remote, netlog, retryVars, searchVars, mergeVars, cacheVars,
                 lookupVars, pureVars, raceVars>>
pureOthers == <<remote, netlog, retryVars, searchVars, mergeVars, cacheVars,
                lookupVars, rangeVars, raceVars>>
raceOthers == <<remote, netlog, retryVars, searchVars, mergeVars, mpc,
                exit_code, last_call, ncalls, lookupVars, rangeVars, pureVars>>

-----------------------------------------------------------------------------
(* Python values *)

\* None
None == [t |-> "none", v |-> <<>>]

\* a str
Str(s) == [t |-> "str", v |-> s]

\* an int
Int_(n) == [t |-> "int", v |-> <<n>>]

\* Python truthiness of a value (None, "" and 0 are falsy)
Truthy(x) ==
    CASE x.t = "none" -> FALSE
      [] x.t = "str"  -> x.v # <<>>
      [] x.t = "int"  -> x.v # <<0>>
      [] x.t = "list" -> x.v # <<>>
      [] OTHER        -> TRUE

\* a list
List(l) == [t |-> "list", v |-> l]

-----------------------------------------------------------------------------
(* str operations *)

\* the characters str.strip() removes
Whitespace == {" ", "\t", "\n"}

\* str.lstrip()
RECURSIVE LStrip(_)
LStrip(s) ==
    IF s # <<>> /\ Head(s) \in Whitespace THEN LStrip(Tail(s)) ELSE s

\* str.rstrip()
RECURSIVE RStrip(_)
RStrip(s) ==
    IF s # <<>> /\ s[Len(s)] \in Whitespace
      THEN RStrip(SubSeq(s, 1, Len(s) - 1))
      ELSE s

\* str.strip()
Strip(s) == RStrip(LStrip(s))

\* str.rstrip(ch)
RECURSIVE RStripChar(_, _)
RStripChar(s, ch) ==
    IF s # <<>> /\ s[Len(s)] = ch
      THEN RStripChar(SubSeq(s, 1, Len(s) - 1), ch)
      ELSE s

\* str.replace(ch, "")
Remove(s, ch) == SelectSeq(s, LAMBDA c : c # ch)

\* the slice s[a:b] of Python (0-based, b excluded, clipped to the length)
Slice(s, a, b) == SubSeq(s, a + 1, IF b < Len(s) THEN b ELSE Len(s))

\* `x or ""` for x a str or None
OrEmpty(x) == IF Truthy(x) THEN x.v ELSE <<>>

\* _clean_text (usitc_mapping.py:78-79): (s or "").strip()
clean_text(x) == Strip(OrEmpty(x))

\* normalize_hts_input (usitc_mapping.py:82-86)
normalize_hts_input(q) == RStripChar(Remove(clean_text(Str(q)), " "), ".")

\* dict.get(key, default)
Get(d, key, default) == IF key \in DOMAIN d THEN d[key] ELSE default

\* truth value of `dict | None`: None and {} are falsy
RowTruthy(r) == r # None /\ DOMAIN r # {}

-----------------------------------------------------------------------------
(* Retry configuration, usitc_mapping.py:37-40 *)

MAX_RETRIES == 3
RETRY_DELAY_SECONDS == 1
REQUEST_TIMEOUT == 30

\* 2 ** n
RECURSIVE Pow2(_)
Pow2(n) == IF n = 0 THEN 1 ELSE 2 * Pow2(n - 1)

-----------------------------------------------------------------------------
(* _request_with_retry *)

\* The HTTP statuses for which Response.raise_for_status raises HTTPError.
ErrorStatuses == {400, 404, 429, 500, 503}

\* The bodies of a response that raise_for_status accepts.
Bodies == {"json_list", "json_other"}

\* What one attempt can do: requests.get returns a response (status 200),
\* or it raises Timeout, ConnectionError or another RequestException, or
\* raise_for_status raises HTTPError for an error status.
Outcome(kind, status, body) == [kind |-> kind, status |-> status, body |-> body]

NoExc == Outcome("none", 0, "")

\* requests.Response.__bool__ returns Response.ok: True iff raise_for_status
\* would not raise, i.e. iff the status is below 400.
ResponseTruthy(status) == status < 400

\* `e.response.status_code if e.response else None` (line 210)
HTTPErrorStatusCode(status) ==
    IF ResponseTruthy(status) THEN Int_(status) ELSE None

\* `status_code and 400 <= status_code < 500 and status_code != 429` (line 212)
IsTerminalStatusMutant(status_code) ==
    \/ ~Truthy(status_code)
    \/ (400 <= status_code.v[1] /\ status_code.v[1] < 500)

IsTerminalStatus(status_code) ==
    /\ Truthy(status_code)
    /\ 400 <= status_code.v[1]
    /\ status_code.v[1] < 500
    /\ status_code.v[1] # 429

\* the f-string of an APIError message: its template, and what it interpolates
Message(fmt, timeout, e) == [fmt |-> fmt, timeout |-> timeout, e |-> e]

\* APIError(message, status_code=None, retries_attempted=0) (lines 66-71)
APIError(message, status_code, retries_attempted) ==
    [t |-> "APIError",
     message |-> message,
     status_code |-> status_code,
     retries_attempted |-> retries_attempted]

\* `retries_attempted=attempt + 1` in every handler
RetriesAttemptedMutant(a) == a

RetriesAttempted(a) == a + 1

\* the response object returned at line 197
Response(o) == [t |-> "Response", status |-> o.status, body |-> o.body]

\* The call sites pass method "GET" (lines 241 and 261), and the defaults
\* max_retries = MAX_RETRIES and timeout = REQUEST_TIMEOUT.
Methods == {"GET"}

RetryIdle ==
    /\ rpc = "idle"
    /\ attempt = 0
    /\ last_error = None
    /\ outcomes = <<>>
    /\ slept = <<>>
    /\ ret = None

\* entering the function: last_error = None, then the first loop iteration
RequestWithRetry ==
    /\ rpc = "idle"
    /\ \E method \in Methods :
         /\ attempt' = 0
         /\ last_error' = None
         /\ outcomes' = <<>>
         /\ slept' = <<>>
         /\ ret' = None
         /\ rpc' = IF 0 < MAX_RETRIES THEN "attempt" ELSE "exhausted"
    /\ UNCHANGED retryOthers

\* lines 191-197: the request succeeds and raise_for_status does not raise
AttemptReturns ==
    /\ rpc = "attempt"
    /\ \E body \in Bodies :
         LET o == Outcome("ok", 200, body) IN
           /\ outcomes' = Append(outcomes, o)
           /\ ret' = Response(o)
           /\ rpc' = "returned"
    /\ UNCHANGED <<attempt, last_error, slept>>
    /\ UNCHANGED retryOthers

\* lines 199-203
AttemptTimeout ==
    /\ rpc = "attempt"
    /\ outcomes' = Append(outcomes, Outcome("Timeout", 0, ""))
    /\ last_error' = APIError(Message("Request timed out after {timeout}s",
                                      REQUEST_TIMEOUT, NoExc),
                              None, RetriesAttempted(attempt))
    /\ rpc' = "backoff"
    /\ UNCHANGED <<attempt, slept, ret>>
    /\ UNCHANGED retryOthers

\* lines 204-208
AttemptConnectionError ==
    /\ rpc = "attempt"
    /\ LET o == Outcome("ConnectionError", 0, "") IN
         /\ outcomes' = Append(outcomes, o)
         /\ last_error' = APIError(Message("Connection error: {e}", 0, o),
                                   None, RetriesAttempted(attempt))
    /\ rpc' = "backoff"
    /\ UNCHANGED <<attempt, slept, ret>>
    /\ UNCHANGED retryOthers

\* lines 209-222
AttemptHTTPError ==
    /\ rpc = "attempt"
    /\ \E status \in ErrorStatuses :
         LET o == Outcome("HTTPError", status, "")
             status_code == HTTPErrorStatusCode(status)
         IN
           /\ outcomes' = Append(outcomes, o)
           /\ IF IsTerminalStatus(status_code)
                THEN /\ ret' = APIError(Message("HTTP {status_code}: {e}", 0, o),
                                        status_code, RetriesAttempted(attempt))
                     /\ rpc' = "raised"
                     /\ UNCHANGED last_error
                ELSE /\ last_error' = APIError(Message("HTTP error: {e}", 0, o),
                                               status_code, RetriesAttempted(attempt))
                     /\ rpc' = "backoff"
                     /\ UNCHANGED ret
    /\ UNCHANGED <<attempt, slept>>
    /\ UNCHANGED retryOthers

\* lines 223-227
AttemptRequestException ==
    /\ rpc = "attempt"
    /\ LET o == Outcome("RequestException", 0, "") IN
         /\ outcomes' = Append(outcomes, o)
         /\ last_error' = APIError(Message("Request failed: {e}", 0, o),
                                   None, RetriesAttempted(attempt))
    /\ rpc' = "backoff"
    /\ UNCHANGED <<attempt, slept, ret>>
    /\ UNCHANGED retryOthers

\* `delay = RETRY_DELAY_SECONDS * (2 ** attempt)` (line 231)
BackoffDelay(a) == RETRY_DELAY_SECONDS * Pow2(a)

\* lines 229-232, then the next iteration of the loop of line 189
Backoff ==
    /\ rpc = "backoff"
    /\ slept' = IF attempt < MAX_RETRIES - 1
                  THEN Append(slept, BackoffDelay(attempt))
                  ELSE slept
    /\ attempt' = attempt + 1
    /\ rpc' = IF attempt + 1 < MAX_RETRIES THEN "attempt" ELSE "exhausted"
    /\ UNCHANGED <<last_error, outcomes, ret>>
    /\ UNCHANGED retryOthers

\* line 235
RaiseExhausted ==
    /\ rpc = "exhausted"
    /\ ret' = IF last_error # None
                THEN last_error
                ELSE APIError(Message("Unknown error after retries", 0, NoExc),
                              None, MAX_RETRIES)
    /\ rpc' = "raised"
    /\ UNCHANGED <<attempt, last_error, outcomes, slept>>
    /\ UNCHANGED retryOthers

RetryNext ==
    \/ RequestWithRetry
    \/ AttemptReturns
    \/ AttemptTimeout
    \/ AttemptConnectionError
    \/ AttemptHTTPError
    \/ AttemptRequestException
    \/ Backoff
    \/ RaiseExhausted

-----------------------------------------------------------------------------
(* Rows of the remote service *)

\* the duty-rate fields
RateFields == {"general", "special", "other"}

format_hts_codeMutant(digits) == digits

\* format_hts_code (usitc_search.py:161-171)
format_hts_code(digits) ==
    IF Len(digits) >= 10
      THEN Slice(digits, 0, 4) \o <<".">> \o Slice(digits, 4, 6) \o <<".">>
           \o Slice(digits, 6, 8) \o <<".">> \o Slice(digits, 8, 10)
    ELSE IF Len(digits) >= 8
      THEN Slice(digits, 0, 4) \o <<".">> \o Slice(digits, 4, 6) \o <<".">>
           \o Slice(digits, 6, 8)
    ELSE IF Len(digits) >= 6
      THEN Slice(digits, 0, 4) \o <<".">> \o Slice(digits, 4, 6)
    ELSE IF Len(digits) >= 4
      THEN Slice(digits, 0, 4)
    ELSE digits

get_ancestor_codesMutant(code) ==
    LET code_digits == Remove(code, ".") IN
      (IF Len(code_digits) >= 6
         THEN <<format_hts_code(Slice(code_digits, 0, 4))>> ELSE <<>>)
      \o (IF Len(code_digits) >= 8
            THEN <<format_hts_code(Slice(code_digits, 0, 6))>> ELSE <<>>)
      \o (IF Len(code_digits) >= 10
            THEN <<format_hts_code(Slice(code_digits, 0, 8))>> ELSE <<>>)

\* get_ancestor_codes (usitc_search.py:174-189)
get_ancestor_codes(code) ==
    LET code_digits == Remove(code, ".") IN
      (IF Len(code_digits) >= 10
         THEN <<format_hts_code(Slice(code_digits, 0, 8))>> ELSE <<>>)
      \o (IF Len(code_digits) >= 8
            THEN <<format_hts_code(Slice(code_digits, 0, 6))>> ELSE <<>>)
      \o (IF Len(code_digits) >= 6
            THEN <<format_hts_code(Slice(code_digits, 0, 4))>> ELSE <<>>)

\* The codes of the example hierarchy 0901.21.00.00 and its ancestors.
Code10 == <<"0", "9", "0", "1", ".", "2", "1", ".", "0", "0", ".", "0", "0">>
Code8 == <<"0", "9", "0", "1", ".", "2", "1", ".", "0", "0">>
Code6 == <<"0", "9", "0", "1", ".", "2", "1">>
Code4 == <<"0", "9", "0", "1">>
Digits10 == <<"0", "9", "0", "1", "2", "1", "0", "0", "0", "0">>
OtherCode == <<"9", "9", "9", "9">>

\* the codes the remote service has rows for
RemoteCodes == {Code10, Code8, Code6, Code4}

\* the text of a non-blank rate: its field and the code of the row it is on,
\* so that a rate value tells which row it comes from
RateText(field, code) == Str(<<field, ":">> \o code)

\* how a row's rate fields can be filled (some blank forms: "", None,
\* whitespace only, key absent)
Profiles == {"blank", "g", "s", "gso"}

\* a TariffRow of the remote service, as exportList returns it
Row(htsno, code, profile) ==
    [htsno |-> Str(htsno), description |-> Str(<<"d", ":">> \o code)]
    @@ (CASE profile = "blank" ->
               [general |-> Str(<<>>), special |-> None,
                units |-> List(<<"kg">>)]
          [] profile = "g" ->
               [general |-> RateText("general", code), special |-> Str(<<>>),
                other |-> Str(<<" ">>), quotaQuantity |-> None]
          [] profile = "s" ->
               [general |-> Str(<<" ">>), special |-> RateText("special", code)]
          [] profile = "gso" ->
               [general |-> RateText("general", code),
                special |-> RateText("special", code),
                other |-> RateText("other", code),
                units |-> List(<<"kg">>)])

\* a superior heading row: no code, no rates
Header(code) == Row(<<>>, <<"h">> \o code, "blank")

\* fetch_exportlist's outcome: the rows returned, or APIError raised
Rows(data) == [err |-> FALSE, data |-> data]
Raises == [err |-> TRUE, data |-> <<>>]

\* What the service can answer to from = to = code: nothing, the row of the
\* code (alone, or after a heading row and with a padded htsno), a heading
\* row alone, or the rows of another code (`context`: for an ancestor the
\* rows it returns for the 10-digit code, so that a code has one row).
Responses(code, context) ==
    {Raises, Rows(<<>>), Rows(context)}
    \cup {Rows(<<Row(code, code, p)>>) : p \in Profiles}
    \cup {Rows(<<Header(code), Row(<<" ">> \o code, code, "g")>>),
          Rows(<<Header(code)>>)}

\* for a code the service has no row for, it answers with the nearest row
UnknownResponse == Rows(<<Row(Code10, Code10, "g")>>)

\* The service answers from = to = an ancestor code with the one row of
\* another code: of a code outside the hierarchy, or of the 4-digit heading
\* (fetch_hts_row, lines 356-360, takes the first row with a code when no
\* row has the code asked for).
Misplaced ==
    {Rows(<<Row(OtherCode, OtherCode, "g")>>), Rows(<<Row(Code4, Code4, "g")>>)}

\* fetch_exportlist(code, code) (usitc_mapping.py:252-269)
fetch_exportlist(code) ==
    IF code \in DOMAIN remote THEN remote[code] ELSE UnknownResponse

\* the least index of s that satisfies P, or 0
FirstIndex(s, P(_)) ==
    IF \E i \in 1..Len(s) : P(s[i])
      THEN CHOOSE i \in 1..Len(s) : P(s[i]) /\ \A j \in 1..(i - 1) : ~P(s[j])
      ELSE 0

\* the htsno of a row, cleaned
RowCode(item) == clean_text(Get(item, "htsno", Str(<<>>)))

fetch_hts_rowMutant(resp, code) ==
    IF resp.err \/ resp.data = <<>> THEN Row(code, code, "blank")
    ELSE resp.data[1]

\* fetch_hts_row (usitc_search.py:340-364), given fetch_exportlist's outcome
fetch_hts_row(resp, code) ==
    IF resp.err THEN None
    ELSE IF resp.data = <<>> THEN None
    ELSE LET exact == FirstIndex(resp.data, LAMBDA item : RowCode(item) = code)
             coded == FirstIndex(resp.data, LAMBDA item : RowCode(item) # <<>>)
         IN IF exact # 0 THEN resp.data[exact]
            ELSE IF coded # 0 THEN resp.data[coded]
            ELSE resp.data[1]

-----------------------------------------------------------------------------
(* resolve_effective_duty_line, merge_resolved_view *)

\* `any((item.get(field) or "").strip() for field in (...))` (lines 331-334)
FieldsOfHasRate == RateFields

HasRateMutant(item) == Strip(OrEmpty(Get(item, "general", None))) # <<>>

HasRate(item) ==
    \E field \in FieldsOfHasRate : Strip(OrEmpty(Get(item, field, None))) # <<>>

\* x in list
InList(x, l) == \E i \in 1..Len(l) : l[i] = x

RECURSIVE AddAncestorsMutant(_, _, _)
AddAncestorsMutant(lines, candidates, chain) ==
    IF lines = <<>> THEN [candidates |-> candidates, chain |-> chain]
    ELSE LET code == RowCode(Head(lines))
         IN IF code # <<>> /\ ~InList(code, chain)
              THEN AddAncestorsMutant(Tail(lines), candidates,
                                      Append(chain, code))
              ELSE AddAncestorsMutant(Tail(lines), candidates, chain)

\* lines 312-327: the candidates and the fallback chain
RECURSIVE AddAncestors(_, _, _)
AddAncestors(lines, candidates, chain) ==
    IF lines = <<>> THEN [candidates |-> candidates, chain |-> chain]
    ELSE LET item == Head(lines)
             code == RowCode(item)
         IN IF code # <<>> /\ ~InList(code, chain)
              THEN AddAncestors(Tail(lines), Append(candidates, item),
                                Append(chain, code))
              ELSE AddAncestors(Tail(lines), candidates, chain)

Candidates(requested, ancestors) ==
    LET code == IF RowTruthy(requested) THEN RowCode(requested) ELSE <<>>
        start == IF RowTruthy(requested) /\ code # <<>>
                   THEN [candidates |-> <<requested>>, chain |-> <<code>>]
                   ELSE [candidates |-> <<>>, chain |-> <<>>]
    IN AddAncestors(ancestors, start.candidates, start.chain)

\* lines 330-337: the first candidate with any duty rate
FirstWithRateMutant(candidates) ==
    LET i == FirstIndex(candidates, HasRate) IN
      IF i = 0 THEN None
      ELSE candidates[CHOOSE k \in 1..Len(candidates) :
                         /\ HasRate(candidates[k])
                         /\ \A j \in (k + 1)..Len(candidates) :
                              ~HasRate(candidates[j])]

FirstWithRate(candidates) ==
    LET i == FirstIndex(candidates, HasRate) IN
      IF i = 0 THEN None ELSE candidates[i]

\* resolve_effective_duty_line (usitc_search.py:292-337)
resolve_effective_duty_line(requested, ancestors, target_hts) ==
    LET c == Candidates(requested, ancestors) IN
      [line |-> FirstWithRate(c.candidates), chain |-> c.chain]

\* `value and str(value).strip()` (line 386)
NonBlank(value) == Truthy(value) /\ Strip(value.v) # <<>>

\* lines 383-387: which rate fields of the effective line overwrite the view
OverridesMutant(effective) ==
    IF RowTruthy(effective)
      THEN {f \in RateFields : f \in DOMAIN effective}
      ELSE {}

Overrides(effective) ==
    IF RowTruthy(effective)
      THEN {f \in RateFields : NonBlank(Get(effective, f, None))}
      ELSE {}

\* merge_resolved_view (usitc_search.py:367-389)
merge_resolved_view(requested, effective) ==
    LET base == IF RowTruthy(requested) THEN requested ELSE <<>>
        over == Overrides(effective)
    IN [k \in DOMAIN base \cup over |->
          IF k \in over THEN effective[k] ELSE base[k]]

-----------------------------------------------------------------------------
(* search_hts_quantitative_details (usitc_search.py:392-480) *)

\* the message of an error result: the f-string's template and what it
\* interpolates
ErrorMessage(fmt, code, got) == [fmt |-> fmt, code |-> code, got |-> got]

\* HTSQuantitativeResult (usitc_search.py:40-51), with its defaults
HTSQuantitativeResult(code, req, eff, eff_code, view, context, chain, error) ==
    [hts_code |-> code,
     requested_line |-> req,
     effective_duty_line |-> eff,
     effective_hts_code |-> eff_code,
     resolved_view |-> view,
     hierarchical_context |-> context,
     fallback_chain |-> chain,
     error_message |-> error]

ErrorResult(code, error) ==
    HTSQuantitativeResult(code, None, None, None, <<>>, <<>>, <<>>, error)

\* the raw arguments a caller passes
Inputs ==
    {Code10, Code8, Code6, Code4, Digits10,
     <<" ">> \o Code10 \o <<".", " ">>,
     <<"0", "9", "0", "1", " ", ".", "2", "1">>,
     <<" ", ".", " ">>,
     <<>>}

SearchIdle ==
    /\ spc = "idle"
    /\ hts_code = <<>>
    /\ requested_line = None
    /\ ancestor_lines = <<>>
    /\ all_context = <<>>
    /\ anc_i = 0
    /\ result = None

\* the locals of a process that is not inside the function
SearchReset ==
    /\ spc' = "idle"
    /\ hts_code' = <<>>
    /\ requested_line' = None
    /\ ancestor_lines' = <<>>
    /\ all_context' = <<>>
    /\ anc_i' = 0
    /\ result' = None

\* lines 408-414: entering the function with argument input
SearchEnter(input) ==
    /\ hts_code' = input
    /\ requested_line' = None
    /\ ancestor_lines' = <<>>
    /\ all_context' = <<>>
    /\ anc_i' = 0
    /\ IF normalize_hts_input(input) = <<>>
         THEN /\ result' = ErrorResult(input,
                   ErrorMessage("Invalid HTS code: empty or invalid format",
                                <<>>, <<>>))
              /\ spc' = "done"
         ELSE /\ result' = None
              /\ spc' = "fetch_exact"

\* a call of search_hts_quantitative_details
SearchCall ==
    /\ spc = "idle"
    /\ \E input \in Inputs : SearchEnter(input)
    /\ UNCHANGED <<remote, netlog>>
    /\ UNCHANGED searchOthers

\* `requested_code != normalized_code` (line 428)
CodeMismatchMutant(requested_code, normalized_code) == FALSE

CodeMismatch(requested_code, normalized_code) ==
    requested_code # normalized_code

\* lines 417-437: step 1, the exact row
FetchExact ==
    /\ spc = "fetch_exact"
    /\ LET normalized_code == normalize_hts_input(hts_code)
           row == fetch_hts_row(fetch_exportlist(normalized_code),
                                normalized_code)
       IN /\ netlog' = Append(netlog, <<normalized_code, normalized_code>>)
          /\ IF ~RowTruthy(row)
               THEN /\ result' = ErrorResult(normalized_code,
                         ErrorMessage("Exact HTS code not found: {normalized_code}",
                                      normalized_code, <<>>))
                    /\ spc' = "done"
                    /\ UNCHANGED <<requested_line, all_context>>
             ELSE IF CodeMismatch(RowCode(row), normalized_code)
               THEN /\ result' = ErrorResult(normalized_code,
                         ErrorMessage("Exact HTS code not found: {normalized_code} (got {requested_code} instead)",
                                      normalized_code, RowCode(row)))
                    /\ spc' = "done"
                    /\ requested_line' = row
                    /\ UNCHANGED all_context
             ELSE /\ requested_line' = row
                  /\ all_context' = <<row>>
                  /\ spc' = IF get_ancestor_codes(normalized_code) = <<>>
                              THEN "resolve" ELSE "fetch_ancestors"
                  /\ UNCHANGED result
    /\ UNCHANGED <<hts_code, ancestor_lines, anc_i>>
    /\ UNCHANGED remote
    /\ UNCHANGED searchOthers

\* lines 439-443: one iteration of the loop over ancestor_codes
FetchAncestor ==
    /\ spc = "fetch_ancestors"
    /\ LET ancestor_codes == get_ancestor_codes(normalize_hts_input(hts_code))
           ancestor_code == ancestor_codes[anc_i + 1]
           ancestor_row == fetch_hts_row(fetch_exportlist(ancestor_code),
                                         ancestor_code)
       IN /\ netlog' = Append(netlog, <<ancestor_code, ancestor_code>>)
          /\ IF RowTruthy(ancestor_row)
               THEN /\ ancestor_lines' = Append(ancestor_lines, ancestor_row)
                    /\ all_context' = Append(all_context, ancestor_row)
               ELSE UNCHANGED <<ancestor_lines, all_context>>
          /\ anc_i' = anc_i + 1
          /\ spc' = IF anc_i + 1 = Len(ancestor_codes)
                      THEN "resolve" ELSE "fetch_ancestors"
    /\ UNCHANGED <<hts_code, requested_line, result>>
    /\ UNCHANGED remote
    /\ UNCHANGED searchOthers

\* lines 445-469: steps 3 and 4, and the result
Resolve ==
    /\ spc = "resolve"
    /\ LET normalized_code == normalize_hts_input(hts_code)
           r == resolve_effective_duty_line(requested_line, ancestor_lines,
                                            normalized_code)
           effective_hts_code ==
               IF RowTruthy(r.line) THEN Str(RowCode(r.line)) ELSE None
           resolved_view == merge_resolved_view(requested_line, r.line)
       IN result' = HTSQuantitativeResult(normalized_code, requested_line,
                        r.line, effective_hts_code, resolved_view,
                        all_context, r.chain, None)
    /\ spc' = "done"
    /\ UNCHANGED <<hts_code, requested_line, ancestor_lines, all_context, anc_i>>
    /\ UNCHANGED <<remote, netlog>>
    /\ UNCHANGED searchOthers

SearchNext ==
    \/ SearchCall
    \/ FetchExact
    \/ FetchAncestor
    \/ Resolve

-----------------------------------------------------------------------------
(* merge_resolved_view called on its own *)

\* the values a rate field of an argument can hold
MergeValues(who) == {None, Str(<<>>), Str(<<" ">>), Str(<<who, "%">>)}

\* the rows merge_resolved_view is applied to: every way of leaving out or
\* filling general, special and other, with or without other fields
MergeRows(who) ==
    UNION {
      { [f \in present |-> IF f = "general" THEN g
                           ELSE IF f = "special" THEN sp ELSE o]
        @@ extra :
          g \in MergeValues(who), sp \in MergeValues(who),
          o \in {None, Str(<<who, "%">>)},
          extra \in {<<>>, [htsno |-> Str(<<who>>),
                            units |-> List(<<who, "kg">>)]} } :
      present \in SUBSET RateFields }

MergeIdle ==
    /\ mrv_requested = None
    /\ mrv_effective = None
    /\ mrv_resolved = None

\* a call merge_resolved_view(requested_line, effective_duty_line)
MergeCall ==
    /\ mrv_resolved = None
    /\ \E requested \in MergeRows("r") \cup {None},
          effective \in MergeRows("e") \cup {None} :
         /\ mrv_requested' = requested
         /\ mrv_effective' = effective
         /\ mrv_resolved' = [view |-> merge_resolved_view(requested, effective)]
    /\ UNCHANGED mergeOthers

MergeNext == MergeCall

-----------------------------------------------------------------------------
(* The JSON cache (usitc_search.py:483-589) *)

\* a dict
Dict(d) == [t |-> "dict", v |-> d]

\* The content of RESULTS_JSON_FILE: the file does not exist, or it holds
\* text that is not JSON, or it holds a JSON value.  Reads and writes of the
\* file themselves do not fail.
NoFile == [kind |-> "absent", value |-> None]
NotJson == [kind |-> "not_json", value |-> None]
Json(value) == [kind |-> "json", value |-> value]

\* an exception that leaves the function that raises it
Raised(name) == [t |-> "raised", v |-> name]
AttributeError == Raised("AttributeError")

\* a JSON object (rows and entries are functions of their keys; every other
\* value is a [t, v] record)
IsMapping(x) == DOMAIN x # {"t", "v"}

\* line 503: item.get raises AttributeError for an item that is no dict, and
\* the except clause of line 505 does not catch it
LoadRaises(f) ==
    /\ f.kind = "json"
    /\ f.value.t = "list"
    /\ \E i \in 1..Len(f.value.v) : ~IsMapping(f.value.v[i])

\* lines 501-503: the dict made of a list of results
RECURSIVE DictOfList(_)
DictOfList(items) ==
    IF items = <<>> THEN <<>>
    ELSE LET item == items[Len(items)]
             rest == DictOfList(SubSeq(items, 1, Len(items) - 1))
             key == Get(item, "hts_code", Str(<<>>))
         IN IF Truthy(Get(item, "hts_code", None))
              THEN (key.v :> item) @@ rest
              ELSE rest

\* load_stored_results (usitc_search.py:487-507)
load_stored_results(f) ==
    IF f.kind = "absent" THEN <<>>
    ELSE IF f.kind = "not_json" THEN <<>>
    ELSE IF f.value.t = "dict" THEN f.value.v
    ELSE IF f.value.t = "list"
      THEN IF LoadRaises(f) THEN AttributeError ELSE DictOfList(f.value.v)
    ELSE <<>>

\* HTSQuantitativeResult.to_compact_dict (usitc_search.py:75-120)
to_compact_dict(r) ==
    LET description ==
            IF RowTruthy(r.requested_line)
              THEN clean_text(Get(r.requested_line, "description", Str(<<>>)))
              ELSE <<>>
        view == r.resolved_view
        rates == {f \in RateFields : NonBlank(Get(view, f, None))}
        lists == {f \in {"units", "footnotes"} : Truthy(Get(view, f, None))}
        others == {f \in {"quotaQuantity", "additionalDuties"} :
                     Get(view, f, None) # None}
    IN [hts_code |-> Str(r.hts_code),
        effective_hts_code |-> r.effective_hts_code,
        fallback_chain |-> List(r.fallback_chain)]
       @@ (IF description # <<>>
             THEN [description |-> Str(description)] ELSE <<>>)
       @@ (IF DOMAIN view # {}
             THEN [f \in rates \cup lists \cup others |-> view[f]]
             ELSE <<>>)

\* `if result.error_message:` (line 515)
IsErrorResultMutant(r) == FALSE

IsErrorResult(r) == r.error_message # None

\* `if result.hts_code in stored_results:` (line 523)
AlreadyStoredMutant(r, stored_results) == FALSE

AlreadyStored(r, stored_results) == r.hts_code \in DOMAIN stored_results

\* lines 527-532: the file written, stored_results with the new entry
WrittenMutant(stored_results, r) ==
    Json(Dict(r.hts_code :> to_compact_dict(r)))

Written(stored_results, r) ==
    Json(Dict((r.hts_code :> to_compact_dict(r)) @@ stored_results))

\* save_result_to_json (usitc_search.py:510-536): the file it leaves and
\* what it returns
save_result_to_json(f, r) ==
    LET stored_results == load_stored_results(f) IN
      IF IsErrorResult(r) THEN [file |-> f, ret |-> "False"]
      ELSE IF LoadRaises(f) THEN [file |-> f, ret |-> "AttributeError"]
      ELSE IF AlreadyStored(r, stored_results) THEN [file |-> f, ret |-> "False"]
      ELSE [file |-> Written(stored_results, r), ret |-> "True"]

StoredViewFields ==
    {"general", "special", "other", "units", "footnotes", "quotaQuantity",
     "additionalDuties"}

\* lines 546-589 for an entry that is there
StoredResult(stored_data) ==
    IF "hts_code" \notin DOMAIN stored_data THEN None
    ELSE
      LET resolved_view ==
              [f \in StoredViewFields \cap DOMAIN stored_data |-> stored_data[f]]
          requested ==
              IF "description" \in DOMAIN stored_data
                THEN [description |-> stored_data["description"],
                      htsno |-> stored_data["hts_code"]]
                ELSE None
          effective ==
              IF RateFields \cap DOMAIN stored_data # {}
                THEN [f \in RateFields \cap DOMAIN stored_data |-> stored_data[f]]
                     @@ (IF "effective_hts_code" \in DOMAIN stored_data
                           THEN [htsno |-> stored_data["effective_hts_code"]]
                           ELSE <<>>)
                ELSE None
      IN HTSQuantitativeResult(stored_data["hts_code"].v, requested, effective,
             Get(stored_data, "effective_hts_code", None), resolved_view, <<>>,
             Get(stored_data, "fallback_chain", List(<<>>)).v, None)

\* get_stored_result (usitc_search.py:539-589)
get_stored_resultMutant(f, code) == None

get_stored_result(f, code) ==
    LET stored_results == load_stored_results(f) IN
      IF LoadRaises(f) THEN AttributeError
      ELSE IF code \in DOMAIN stored_results
        THEN StoredResult(stored_results[code])
        ELSE None

\* a call of one of the two functions, and what it returned
Call(fn, arg, r) == [fn |-> fn, arg |-> arg, ret |-> r]
NoCall == Call("", None, None)

-----------------------------------------------------------------------------
(* main (usitc_search.py:733-774) and direct calls of the cache functions *)

\* bound: the calls of save_result_to_json / get_stored_result after which no
\* new operation starts
MaxCalls == 3

\* " ".join(args)
RECURSIVE Join(_)
Join(args) ==
    IF args = <<>> THEN <<>>
    ELSE IF Len(args) = 1 THEN args[1]
    ELSE args[1] \o <<" ">> \o Join(Tail(args))

\* sys.argv[1:] of the runs of the command line
Argvs ==
    {<<>>, <<Code10>>, <<<<" ">> \o Code10 \o <<".">>, <<" ">>>>,
     <<Code4, <<".", "2", "1">>>>, <<Code4>>, <<<<".">>>>}

\* the result a resolution of `code` gives when its row has rates `profile`
DirectResult(code, profile) ==
    LET row == Row(code, code, profile) IN
      HTSQuantitativeResult(code, row, IF HasRate(row) THEN row ELSE None,
          IF HasRate(row) THEN Str(code) ELSE None,
          merge_resolved_view(row, IF HasRate(row) THEN row ELSE None),
          <<row>>, <<code>>, None)

\* the results save_result_to_json is called with directly
DirectResults ==
    {DirectResult(Code4, "gso"), DirectResult(Code4, "blank"),
     DirectResult(Code6, "s"),
     ErrorResult(Code8,
         ErrorMessage("Exact HTS code not found: {normalized_code}", Code8, <<>>))}

\* what the file can hold before the first run
InitialFiles ==
    {NoFile, NotJson, Json(Int_(0)), Json(Dict(<<>>)),
     Json(Dict(Code6 :> to_compact_dict(DirectResult(Code6, "g")))),
     Json(List(<<to_compact_dict(DirectResult(Code4, "s")),
                 to_compact_dict(DirectResult(Code4, "g"))>>)),
     Json(List(<<to_compact_dict(DirectResult(Code4, "s")), Int_(1)>>))}

CacheIdle ==
    /\ mpc = "idle"
    /\ exit_code = None
    /\ last_call = NoCall
    /\ ncalls = 0

\* a new process starts: nothing is left of the previous one but the file
Quiescent == mpc # "searching" /\ ncalls < MaxCalls

\* lines 735-760: main up to the call of search_hts_quantitative_details
MainCall ==
    /\ Quiescent
    /\ netlog' = <<>>
    /\ \E args \in Argvs :
         IF args = <<>>
           THEN /\ exit_code' = Int_(1)
                /\ mpc' = "done"
                /\ SearchReset
                /\ UNCHANGED <<last_call, ncalls>>
           ELSE
             LET arg == Strip(Join(args))
                 normalized_code == normalize_hts_input(arg)
                 stored_result == get_stored_result(file, normalized_code)
             IN /\ last_call' = Call("get_stored_result", Str(normalized_code),
                                     stored_result)
                /\ ncalls' = ncalls + 1
                /\ IF stored_result # None
                     THEN /\ exit_code' =
                               IF stored_result = AttributeError
                                 THEN AttributeError
                               ELSE IF stored_result.error_message = None
                                 THEN Int_(0)
                               ELSE Int_(1)
                          /\ mpc' = "done"
                          /\ hts_code' = arg
                          /\ spc' = "idle"
                          /\ requested_line' = None
                          /\ ancestor_lines' = <<>>
                          /\ all_context' = <<>>
                          /\ anc_i' = 0
                          /\ result' = IF stored_result = AttributeError
                                         THEN None ELSE stored_result
                     ELSE /\ SearchEnter(arg)
                          /\ exit_code' = None
                          /\ mpc' = "searching"
    /\ UNCHANGED <<file, remote, retryVars, mergeVars, lookupVars, rangeVars,
                 pureVars, raceVars>>

\* lines 762-774: main after search_hts_quantitative_details has returned
MainFinish ==
    /\ mpc = "searching"
    /\ spc = "done"
    /\ IF result.error_message = None
         THEN LET s == save_result_to_json(file, result) IN
                /\ file' = s.file
                /\ last_call' = Call("save_result_to_json", result, s.ret)
                /\ ncalls' = ncalls + 1
         ELSE UNCHANGED <<file, last_call, ncalls>>
    /\ exit_code' =
         IF result.error_message # None THEN Int_(1)
         ELSE IF LoadRaises(file) THEN AttributeError
         ELSE Int_(0)
    /\ mpc' = "done"
    /\ UNCHANGED <<remote, netlog, retryVars, searchVars, mergeVars, lookupVars,
                   rangeVars, pureVars, raceVars>>

\* a process calls save_result_to_json(r)
SaveCall ==
    /\ Quiescent
    /\ \E r \in DirectResults :
         LET s == save_result_to_json(file, r) IN
           /\ file' = s.file
           /\ last_call' = Call("save_result_to_json", r, s.ret)
    /\ ncalls' = ncalls + 1
    /\ mpc' = "idle"
    /\ exit_code' = None
    /\ netlog' = <<>>
    /\ SearchReset
    /\ UNCHANGED <<remote, retryVars, mergeVars, lookupVars, rangeVars,
                 pureVars, raceVars>>

\* a process calls get_stored_result(code)
GetCall ==
    /\ Quiescent
    /\ \E code \in {Code4, Code6, Code10} :
         last_call' = Call("get_stored_result", Str(code),
                           get_stored_result(file, code))
    /\ ncalls' = ncalls + 1
    /\ mpc' = "idle"
    /\ exit_code' = None
    /\ netlog' = <<>>
    /\ SearchReset
    /\ UNCHANGED <<file, remote, retryVars, mergeVars, lookupVars, rangeVars,
                 pureVars, raceVars>>

Next ==
    \/ MainCall
    \/ FetchExact
    \/ FetchAncestor
    \/ Resolve
    \/ MainFinish
    \/ SaveCall
    \/ GetCall

-----------------------------------------------------------------------------
(* Query classification and range building (usitc_mapping.py:89-170) *)

\* the characters \d matches and str.isdigit accepts, among those of the model
Digits == {"0", "1", "2", "3", "4", "5", "6", "7", "8", "9"}

\* str.isdigit(): not empty, digits only
IsDigitStr(s) == s # <<>> /\ \A i \in 1..Len(s) : s[i] \in Digits

\* the length of the longest prefix of s made of characters of `set`
RECURSIVE SpanLen(_, _)
SpanLen(s, set) ==
    IF s # <<>> /\ Head(s) \in set THEN 1 + SpanLen(Tail(s), set) ELSE 0

\* HTS_CHARS_ONLY.match(q) (line 46): ^[\d.\s]+$
MatchesHtsCharsOnly(q) ==
    /\ q # <<>>
    /\ \A i \in 1..Len(q) : q[i] \in Digits \cup {"."} \cup Whitespace

\* HYBRID_PATTERN.match(q) (line 47): ^([\d.]+)\s+(.+)$ on a stripped q.  The
\* first group is the longest run of digits and dots, \s+ takes the
\* whitespace that follows, and the second group is the rest, which `.`
\* matches only if it holds no newline.
HybridMatch(q) ==
    LET n1 == SpanLen(q, Digits \cup {"."})
        rest1 == SubSeq(q, n1 + 1, Len(q))
        n2 == SpanLen(rest1, Whitespace)
        rest2 == SubSeq(rest1, n2 + 1, Len(rest1))
    IN [matched |-> /\ n1 >= 1
                    /\ n2 >= 1
                    /\ rest2 # <<>>
                    /\ \A i \in 1..Len(rest2) : rest2[i] # "\n",
        group1 |-> SubSeq(q, 1, n1),
        group2 |-> rest2]

\* is_hts_like (lines 89-94)
is_hts_like(q) ==
    LET c == clean_text(Str(q)) IN
      IF c = <<>> THEN FALSE ELSE MatchesHtsCharsOnly(c)

\* is_exact_hts_code (lines 101-113)
is_exact_hts_code(q) ==
    LET qn == normalize_hts_input(q)
        digits == Remove(qn, ".")
    IN IF ~IsDigitStr(digits) THEN FALSE ELSE Len(digits) \in {4, 6, 8, 10}

\* parse_hybrid_query (lines 116-129)
parse_hybrid_query(q) ==
    LET c == clean_text(Str(q))
        match == HybridMatch(c)
        hts_part == match.group1
        keyword_part == Strip(match.group2)
    IN IF /\ match.matched
          /\ IsDigitStr(Remove(hts_part, "."))
          /\ keyword_part # <<>>
         THEN <<Str(normalize_hts_input(hts_part)), Str(keyword_part)>>
         ELSE <<None, None>>

\* "0" * n, "9" * n
Repeat(ch, n) == [i \in 1..n |-> ch]

\* the inner function format_hts of build_hts_range (lines 158-168)
format_hts(d) ==
    IF Len(d) >= 10
      THEN Slice(d, 0, 4) \o <<".">> \o Slice(d, 4, 6) \o <<".">>
           \o Slice(d, 6, 8) \o <<".">> \o Slice(d, 8, 10)
    ELSE IF Len(d) >= 8
      THEN Slice(d, 0, 4) \o <<".">> \o Slice(d, 4, 6) \o <<".">>
           \o Slice(d, 6, 8)
    ELSE IF Len(d) >= 6
      THEN Slice(d, 0, 4) \o <<".">> \o Slice(d, 4, 6)
    ELSE IF Len(d) >= 4
      THEN Slice(d, 0, 4)
    ELSE d

\* `if len(digits) >= 10` (line 149)
IsFullCodeMutant(digits) == Len(digits) >= 6

IsFullCode(digits) == Len(digits) >= 10

\* build_hts_range (lines 132-170)
build_hts_range(p) ==
    LET pn == normalize_hts_input(p)
        digits == Remove(pn, ".")
        remaining == 10 - Len(digits)
        from_digits == digits \o Repeat("0", remaining)
        to_digits == digits \o Repeat("9", remaining)
    IN IF IsFullCode(digits)
         THEN <<pn, pn>>
         ELSE <<format_hts(from_digits), format_hts(to_digits)>>

-----------------------------------------------------------------------------
(* Candidates (usitc_mapping.py:285-340) *)

\* MappingCandidate (lines 50-53)
MappingCandidate(htsno, description) ==
    [htsno |-> htsno, description |-> description]

\* extract_candidates_from_items (lines 285-295)
RECURSIVE extract_candidates_from_items(_)
extract_candidates_from_items(data) ==
    IF data = <<>> THEN <<>>
    ELSE LET item == Head(data)
             code == clean_text(Get(item, "htsno", None))
             desc == clean_text(Get(item, "description", None))
         IN (IF code # <<>> /\ desc # <<>>
               THEN <<MappingCandidate(code, desc)>>
               ELSE <<>>)
            \o extract_candidates_from_items(Tail(data))

RECURSIVE DedupeLoopMutant(_, _, _)
DedupeLoopMutant(cands, seen, out) ==
    IF cands = <<>> THEN out
    ELSE LET c == Head(cands) IN
           IF c \notin seen
             THEN DedupeLoopMutant(Tail(cands), seen \cup {c}, Append(out, c))
             ELSE DedupeLoopMutant(Tail(cands), seen, out)

\* the loop of dedupe_candidates, with its locals seen and out
RECURSIVE DedupeLoop(_, _, _)
DedupeLoop(cands, seen, out) ==
    IF cands = <<>> THEN out
    ELSE LET c == Head(cands) IN
           IF c.htsno \notin seen
             THEN DedupeLoop(Tail(cands), seen \cup {c.htsno}, Append(out, c))
             ELSE DedupeLoop(Tail(cands), seen, out)

\* dedupe_candidates (lines 298-306)
dedupe_candidatesMutant(cands) == cands

dedupe_candidates(cands) == DedupeLoop(cands, {}, <<>>)

\* str.startswith
StartsWith(s, p) == Len(p) <= Len(s) /\ SubSeq(s, 1, Len(p)) = p

\* filter_by_hts_prefix (lines 309-322)
filter_by_hts_prefix(cands, p) ==
    LET pn == normalize_hts_input(p)
        prefix_digits == Remove(pn, ".")
    IN IF pn = <<>> THEN cands
       ELSE SelectSeq(cands,
                LAMBDA c : \/ StartsWith(c.htsno, pn)
                           \/ StartsWith(Remove(c.htsno, "."), prefix_digits))

\* str.lower(), for the letters of the model
LowerChar(ch) ==
    CASE ch = "C" -> "c"
      [] ch = "D" -> "d"
      [] ch = "W" -> "w"
      [] OTHER -> ch

Lower(s) == [i \in 1..Len(s) |-> LowerChar(s[i])]

\* str.split(): the maximal runs without whitespace
RECURSIVE Split(_)
Split(s) ==
    LET t == LStrip(s)
        n == SpanLen(t, {t[i] : i \in 1..Len(t)} \ Whitespace)
    IN IF t = <<>> THEN <<>>
       ELSE <<SubSeq(t, 1, n)>> \o Split(SubSeq(t, n + 1, Len(t)))

\* `kw in desc_lower`
Contains(s, sub) ==
    \E i \in 0..(Len(s) - Len(sub)) : SubSeq(s, i + 1, i + Len(sub)) = sub

\* filter_by_keyword (lines 325-340)
filter_by_keyword(cands, kw) ==
    LET keyword == Strip(Lower(kw))
        keywords == Split(keyword)
    IN IF keyword = <<>> THEN cands
       ELSE SelectSeq(cands,
                LAMBDA c : \A k \in 1..Len(keywords) :
                              Contains(Lower(c.description), keywords[k]))

-----------------------------------------------------------------------------
(* mapping_lookup and main (usitc_mapping.py:238-269, 343-517, 613-634) *)

\* LookupResult (lines 56-63)
LookupResult(mode, q, count, candidates, context_rows, error_message) ==
    [t |-> "LookupResult",
     mode |-> mode,
     query |-> q,
     count |-> count,
     candidates |-> candidates,
     context_rows |-> context_rows,
     error_message |-> error_message]

\* the error result of the three `except APIError as e` handlers
ErrorLookupMutant(q, e) == LookupResult("error", q, 0, <<>>, None, None)

ErrorLookup(q, e) ==
    LookupResult("error", q, 0, <<>>, None,
        [fmt |-> "{e.message} (retries: {e.retries_attempted})",
         message |-> e.message,
         retries |-> e.retries_attempted])

\* `if not q` (line 361)
QueryEmptyMutant(q) == FALSE

QueryEmpty(q) == q = <<>>

\* lines 364-374: the function mapping_lookup hands the stripped query to,
\* and the prefix and keyword that function works with
Dispatch(q) ==
    LET h == parse_hybrid_query(q) IN
      IF Truthy(h[1]) /\ Truthy(h[2])
        THEN [kind |-> "hybrid", prefix |-> h[1].v, keyword |-> h[2].v]
      ELSE IF is_hts_like(q)
        THEN [kind |-> "hts", prefix |-> normalize_hts_input(q),
              keyword |-> <<>>]
      ELSE [kind |-> "keyword", prefix |-> <<>>, keyword |-> q]

NoShape == [kind |-> "", prefix |-> <<>>, keyword |-> <<>>]

\* some words
Cotton == <<"c", "o", "t", "t", "o", "n">>
Wool == <<"w", "o", "o", "l">>
Coffee == <<"c", "o", "f", "f", "e", "e">>

\* the queries mapping_lookup is called with
Queries ==
    {<<>>, <<" ">>, <<" ", "\t">>,
     <<"6", "1">>, <<" ", "6", "1", ".", " ">>,
     <<"6", "1", "0", "9">>, <<"6", "1", "0", "9", ".", "1", "0">>,
     <<"6", "1", "0", "9", "1">>,
     <<"8", "4", "7", "1", "3", "0", "0", "0", "0", "0">>,
     Code10, Code4,
     Coffee, Cotton \o <<" ", "6", "1">>,
     <<"6", "1", " ">> \o Cotton,
     <<"6", "1", ".", " ", " ", "C", "o", "t", " ", "t", "o">>,
     <<"6", "1", " ", "0", "9">>,
     <<".", " ", "6", "1">>, <<".", " ">> \o Cotton, <<".", ".">>}

\* the values of max_results: main passes 200 (line 631)
MaxResultsValues == {1, 200}

\* sys.argv[1:] of the runs of main
LookupArgvs ==
    {<<>>, <<<<>>>>, <<<<" ">>>>, <<<<"6", "1">>, Cotton>>, <<Coffee>>,
     <<<<"6", "1", "0", "9">>>>}

\* a row of the service: htsno and description
Item(htsno, description) ==
    [htsno |-> Str(htsno), description |-> Str(description)]

\* the rows the service answers with: none; rows with a heading row, codes
\* that occur twice, a code outside chapter 61 and a row whose htsno is
\* null; rows where the first row of a code has no description
RowLists ==
    {<<>>,
     <<Item(<<>>, <<"T", "-">> \o Cotton),
       Item(<<"6", "1", "0", "9">>, Wool),
       Item(<<"6", "1", "0", "9">>, <<"C", "o", "t", "t", "o", "n">>),
       Item(<<"6", "1", "1", "0">>, Cotton \o <<" ">> \o Wool),
       Item(Code4, Coffee),
       [htsno |-> None, description |-> Str(Coffee)],
       Item(<<"6", "1", "1", "0">>, Cotton)>>,
     <<Item(<<"6", "1", ".", "0", "9">>, <<" ">>),
       Item(<<" ", "6", "1", ".", "0", "9">>, Cotton),
       Item(<<"6", "1", ".", "0", "9">>, Wool \o <<" ">> \o Cotton)>>}

\* the bodies of a response: not JSON, JSON that is no list, a list of rows
LookupBodies ==
    {[kind |-> "not_json", rows |-> <<>>], [kind |-> "other", rows |-> <<>>]}
    \cup {[kind |-> "list", rows |-> r] : r \in RowLists}

\* what _request_with_retry gives a fetch: a response, or the APIError of
\* the last of MAX_RETRIES failed attempts
RetryResults ==
    {Response(Outcome("ok", 200, body)) : body \in LookupBodies}
    \cup {APIError(Message("Request timed out after {timeout}s",
                           REQUEST_TIMEOUT, NoExc),
                   None, RetriesAttempted(MAX_RETRIES - 1)),
          APIError(Message("Connection error: {e}", 0,
                           Outcome("ConnectionError", 0, "")),
                   None, RetriesAttempted(MAX_RETRIES - 1))}

\* the list a fetch returns
Data(rows) == [t |-> "data", rows |-> rows]

\* lines 240-249 and 260-269, given what _request_with_retry did: APIError
\* is re-raised, an exception of response.json() becomes an APIError with
\* the defaults status_code = None and retries_attempted = 0, a list is
\* returned and any other JSON value gives []
FetchOutcome(rr, fmt) ==
    IF rr.t = "APIError" THEN rr
    ELSE IF rr.body.kind = "not_json"
      THEN APIError(Message(fmt, 0, rr.body), None, 0)
    ELSE IF rr.body.kind = "list" THEN Data(rr.body.rows)
    ELSE Data(<<>>)

\* the requests of fetch_search and fetch_exportlist
SearchRequest(keyword) == [url |-> "search", params |-> <<keyword>>]
ExportListRequest(r) == [url |-> "exportList", params |-> r]

\* fetch_search (lines 238-249) and fetch_exportlist (lines 252-269),
\* whichever `req` is for
FetchFor(req, rr) ==
    IF req.url = "search"
      THEN FetchOutcome(rr, "Failed to parse search response: {str(e)}")
      ELSE FetchOutcome(rr, "Failed to parse exportList response: {str(e)}")

\* cands[:max_results]
Truncate(cands, n) == Slice(cands, 0, n)

\* _lookup_keyword's result (lines 450-458)
KeywordResult(rows) ==
    LET cands == dedupe_candidates(extract_candidates_from_items(rows)) IN
      LookupResult("keyword", shape.keyword, Len(cands),
                   Truncate(cands, max_results), None, None)

\* _lookup_hts's result (lines 393-407, 423-435) and _lookup_hybrid's
\* (lines 481-490, 499-509), from the rows of the first fetch and the context
PrefixResult(rows, context) ==
    LET filtered == filter_by_hts_prefix(extract_candidates_from_items(rows),
                                         shape.prefix)
    IN IF shape.kind = "hts"
         THEN LET cands == dedupe_candidates(filtered)
                  mode == IF is_exact_hts_code(shape.prefix) THEN "exact_hts"
                          ELSE IF use_range THEN "hts_range"
                          ELSE "hts_prefix"
              IN LookupResult(mode, shape.prefix, Len(cands),
                              Truncate(cands, max_results), context, None)
         ELSE LET cands == dedupe_candidates(
                               filter_by_keyword(filtered, shape.keyword))
              IN LookupResult("hybrid",
                              shape.prefix \o <<" ", "+", " ", "'">>
                                  \o shape.keyword \o <<"'">>,
                              Len(cands), Truncate(cands, max_results),
                              context, None)

\* the query of the error result of the function that runs (lines 440, 463,
\* 514)
ErrorQuery ==
    IF shape.kind = "hybrid" THEN shape.prefix \o <<" ">> \o shape.keyword
    ELSE IF shape.kind = "hts" THEN shape.prefix
    ELSE shape.keyword

LookupIdle ==
    /\ lpc = "idle"
    /\ query = <<>>
    /\ use_range = TRUE
    /\ max_results = 0
    /\ from_main = FALSE
    /\ shape = NoShape
    /\ raw = <<>>
    /\ requests_made = <<>>
    /\ fetched = <<>>
    /\ res = None
    /\ lexit = None

\* mapping_lookup returns r; when main made the call, main returns (line 634)
Return(r, main) ==
    /\ res' = r
    /\ lpc' = "done"
    /\ lexit' = IF ~main THEN None
                ELSE IF r.mode # "error" THEN Int_(0)
                ELSE Int_(1)

\* lines 360-374: mapping_lookup up to the first fetch
Enter(q0, ur, mr, main) ==
    LET q == clean_text(Str(q0)) IN
      /\ query' = q0
      /\ use_range' = ur
      /\ max_results' = mr
      /\ from_main' = main
      /\ raw' = <<>>
      /\ requests_made' = <<>>
      /\ fetched' = <<>>
      /\ IF QueryEmpty(q)
           THEN /\ shape' = NoShape
                /\ Return(LookupResult("empty", <<>>, 0, <<>>, None, None), main)
           ELSE /\ shape' = Dispatch(q)
                /\ lpc' = "primary"
                /\ res' = None
                /\ lexit' = None

\* a caller calls mapping_lookup(query, max_results, use_range)
MappingLookupCall ==
    /\ lpc \in {"idle", "done"}
    /\ \E q0 \in Queries, ur \in BOOLEAN, mr \in MaxResultsValues :
         Enter(q0, ur, mr, FALSE)
    /\ UNCHANGED lookupOthers

\* main (lines 613-634) up to the first fetch
MappingMain ==
    /\ lpc \in {"idle", "done"}
    /\ \E args \in LookupArgvs :
         IF args = <<>>
           THEN /\ lpc' = "done"
                /\ lexit' = Int_(1)
                /\ from_main' = TRUE
                /\ query' = <<>>
                /\ use_range' = TRUE
                /\ max_results' = 0
                /\ shape' = NoShape
                /\ raw' = <<>>
                /\ requests_made' = <<>>
                /\ fetched' = <<>>
                /\ res' = None
           ELSE Enter(Strip(Join(args)), TRUE, 200, TRUE)
    /\ UNCHANGED lookupOthers

\* the first fetch of _lookup_hts (lines 390, 404), _lookup_keyword (line
\* 449) or _lookup_hybrid (lines 480, 488), and the rest of the function
\* unless a fetch of the context follows
PrimaryFetch ==
    /\ lpc = "primary"
    /\ \E rr \in RetryResults :
         LET req == IF shape.kind = "keyword" THEN SearchRequest(shape.keyword)
                    ELSE IF use_range
                      THEN ExportListRequest(build_hts_range(shape.prefix))
                    ELSE SearchRequest(shape.prefix)
             got == FetchFor(req, rr)
         IN /\ requests_made' = Append(requests_made, req)
            /\ fetched' = Append(fetched, rr)
            /\ IF got.t = "APIError"
                 THEN /\ Return(ErrorLookup(ErrorQuery, got), from_main)
                      /\ raw' = raw
               ELSE IF shape.kind = "keyword"
                 THEN /\ Return(KeywordResult(got.rows), from_main)
                      /\ raw' = got.rows
               ELSE IF use_range
                 THEN /\ Return(PrefixResult(got.rows, List(got.rows)), from_main)
                      /\ raw' = got.rows
               ELSE /\ raw' = got.rows
                    /\ lpc' = "context"
                    /\ UNCHANGED <<res, lexit>>
    /\ UNCHANGED <<query, use_range, max_results, from_main, shape>>
    /\ UNCHANGED lookupOthers

\* lines 410-421 and 493-497: the fetch of the context when use_range is
\* False; its APIError is caught
ContextFetch ==
    /\ lpc = "context"
    /\ \E rr \in RetryResults :
         LET req == ExportListRequest(build_hts_range(shape.prefix))
             got == FetchFor(req, rr)
         IN /\ requests_made' = Append(requests_made, req)
            /\ fetched' = Append(fetched, rr)
            /\ IF got.t # "APIError"
                 THEN Return(PrefixResult(raw, List(got.rows)), from_main)
               ELSE IF shape.kind = "hts" /\ is_exact_hts_code(shape.prefix)
                 THEN /\ lpc' = "fallback"
                      /\ UNCHANGED <<res, lexit>>
               ELSE Return(PrefixResult(raw, None), from_main)
    /\ UNCHANGED <<query, use_range, max_results, from_main, shape, raw>>
    /\ UNCHANGED lookupOthers

\* lines 417-421: the exact code is fetched when the range fetch has failed
FallbackFetch ==
    /\ lpc = "fallback"
    /\ \E rr \in RetryResults :
         LET req == ExportListRequest(<<shape.prefix, shape.prefix>>)
             got == FetchFor(req, rr)
         IN /\ requests_made' = Append(requests_made, req)
            /\ fetched' = Append(fetched, rr)
            /\ IF got.t # "APIError"
                 THEN Return(PrefixResult(raw, List(got.rows)), from_main)
                 ELSE Return(PrefixResult(raw, None), from_main)
    /\ UNCHANGED <<query, use_range, max_results, from_main, shape, raw>>
    /\ UNCHANGED lookupOthers

LookupNext ==
    \/ MappingLookupCall
    \/ MappingMain
    \/ PrimaryFetch
    \/ ContextFetch
    \/ FallbackFetch

-----------------------------------------------------------------------------
(* build_hts_range on its own *)

\* the characters of the prefixes
PrefixChars == {"0", "6", "9", ".", " "}

\* bound: prefixes of up to this length are all tried
MaxPrefixLen == 3

\* the prefixes build_hts_range is called with: every short string, the
\* examples of the docstring, and full codes with and without dots
Prefixes ==
    UNION {[1..n -> PrefixChars] : n \in 0..MaxPrefixLen}
    \cup {<<"6", "1">>, <<"6", "1", "0", "9">>,
          <<"6", "1", "0", "9", ".", "1", "0">>,
          <<"0", "9", "0", "1", ".", "2", "1">>,
          <<"6", "1", "0", "9", "1">>,
          Code8, Code10, Digits10,
          <<"0", "9", "0", "1", "2", "1", "0", "0", "0", "0", "5">>}

RangeIdle ==
    /\ prefix = <<>>
    /\ range = <<>>

\* a caller calls build_hts_range(prefix)
BuildRangeCall ==
    /\ \E p \in Prefixes :
         /\ prefix' = p
         /\ range' = build_hts_range(p)
    /\ UNCHANGED rangeOthers

RangeNext == BuildRangeCall

-----------------------------------------------------------------------------
(* extract_quantitative_fields (usitc_search.py:147-289) *)

\* a bool, a float (mantissa m and e decimals: m / 10^e) and a dict
Bool(b) == [t |-> "bool", v |-> <<b>>]
Float(m, e) == [t |-> "float", v |-> <<m, e>>]
DictValue == [t |-> "dict", v |-> <<>>]

\* QuantitativeDetail (lines 32-37)
QuantitativeDetail(field_name, value, data_type) ==
    [field_name |-> field_name, value |-> value, data_type |-> data_type]

\* priority_fields (lines 201-206)
priority_fields ==
    <<"general", "special", "other", "quotaQuantity", "units", "footnotes">>

\* quantitative_keywords (line 209)
quantitative_keywords ==
    <<<<"r", "a", "t", "e">>, <<"q", "u", "a", "n", "t", "i", "t", "y">>,
      <<"d", "u", "t", "i", "e", "s">>, <<"d", "u", "t", "y">>,
      <<"q", "u", "o", "t", "a">>, <<"u", "n", "i", "t">>>>

\* the characters of the keys of a view that are not priority fields
KeyText ==
    [additionalDuties |-> <<"a", "d", "d", "i", "t", "i", "o", "n", "a", "l",
                            "D", "u", "t", "i", "e", "s">>,
     description |-> <<"d", "e", "s", "c", "r", "i", "p", "t", "i", "o", "n">>]

\* isinstance(value, (int, float)): bool is a subclass of int
IsIntOrFloat(value) == value.t \in {"int", "float", "bool"}

\* value.replace(",", "").replace("%", "").strip() (lines 154, 239, 270)
Cleaned(s) == Strip(Remove(Remove(s, ","), "%"))

\* float(s) does not raise ValueError, for s without sign, exponent,
\* underscore or letters: digits with at most one point, and a digit at least
ParsesAsFloat(s) ==
    LET t == Strip(s) IN
      /\ \A i \in 1..Len(t) : t[i] \in Digits \cup {"."}
      /\ \E i \in 1..Len(t) : t[i] \in Digits
      /\ Len(SelectSeq(t, LAMBDA ch : ch = ".")) <= 1

\* is_numeric_value (lines 147-158)
is_numeric_value(value) ==
    IF IsIntOrFloat(value) THEN TRUE
    ELSE IF value.t = "str" THEN ParsesAsFloat(Cleaned(value.v))
    ELSE FALSE

\* the value of a decimal digit
DigitValue(ch) ==
    CASE ch = "0" -> 0 [] ch = "1" -> 1 [] ch = "2" -> 2 [] ch = "3" -> 3
      [] ch = "4" -> 4 [] ch = "5" -> 5 [] ch = "6" -> 6 [] ch = "7" -> 7
      [] ch = "8" -> 8 [] ch = "9" -> 9

\* int(s) for s of digits only
RECURSIVE ToInt(_)
ToInt(s) ==
    IF s = <<>> THEN 0
    ELSE 10 * ToInt(SubSeq(s, 1, Len(s) - 1)) + DigitValue(s[Len(s)])

\* a sequence without its trailing ch
RECURSIVE DropTrailing(_, _)
DropTrailing(s, ch) ==
    IF s # <<>> /\ s[Len(s)] = ch
      THEN DropTrailing(SubSeq(s, 1, Len(s) - 1), ch)
      ELSE s

\* `float(cleaned) if "." in cleaned else int(cleaned)` (lines 241, 272)
ParseNumber(cleaned) ==
    IF \E i \in 1..Len(cleaned) : cleaned[i] = "."
      THEN LET dot == CHOOSE i \in 1..Len(cleaned) : cleaned[i] = "."
               whole == SubSeq(cleaned, 1, dot - 1)
               frac == DropTrailing(SubSeq(cleaned, dot + 1, Len(cleaned)), "0")
           IN Float(ToInt(whole \o frac), Len(frac))
      ELSE Int_(ToInt(cleaned))

\* the branch of lines 223-264, for a key in priority_fields and a value
\* that is not None: the detail appended, if any
PriorityDetail(key, value) ==
    IF value.t = "list" THEN <<QuantitativeDetail(key, value, "list")>>
    ELSE IF IsIntOrFloat(value)
      THEN <<QuantitativeDetail(key, value, "number")>>
    ELSE IF value.t = "str" /\ Strip(value.v) # <<>>
      THEN IF is_numeric_value(value)
             THEN <<QuantitativeDetail(key, ParseNumber(Cleaned(value.v)),
                                       "number")>>
             ELSE <<QuantitativeDetail(key, value, "string")>>
    ELSE IF value.t = "bool"
      THEN <<QuantitativeDetail(key, value, "boolean")>>
    ELSE <<>>

\* the branch of lines 267-287, for another key
KeywordDetail(key, value) ==
    IF \E k \in 1..Len(quantitative_keywords) :
          Contains(Lower(KeyText[key]), quantitative_keywords[k])
      THEN IF is_numeric_value(value)
             THEN <<QuantitativeDetail(key,
                        IF value.t = "str"
                          THEN ParseNumber(Cleaned(value.v)) ELSE value,
                        "number")>>
           ELSE IF value.t \in {"list", "dict"}
             THEN <<QuantitativeDetail(key, value, value.t)>>
           ELSE <<>>
      ELSE <<>>

\* extract_quantitative_fields (lines 192-289); data is the dict as the
\* sequence of its items, in the order of data.items()
RECURSIVE extract_quantitative_fields(_)
extract_quantitative_fields(data) ==
    IF data = <<>> THEN <<>>
    ELSE LET key == Head(data)[1]
             value == Head(data)[2]
         IN (IF value = None
               THEN IF InList(key, priority_fields)
                      THEN <<QuantitativeDetail(key, None, "null")>>
                      ELSE <<>>
             ELSE IF InList(key, priority_fields)
               THEN PriorityDetail(key, value)
             ELSE KeywordDetail(key, value))
            \o extract_quantitative_fields(Tail(data))

-----------------------------------------------------------------------------
(* Functions without side effect, called on their own: a behaviour is one  *)
(* call, since no call depends on an earlier one                           *)

\* two digits of a code
Pairs == {<<"0", "9">>, <<"0", "1">>, <<"2", "1">>, <<"0", "0">>}

\* bound: codes of up to this many pairs of digits are tried (5: 10 digits)
MaxPairs == 5

\* the digits of the codes of n pairs
RECURSIVE DigitsOfPairs(_)
DigitsOfPairs(n) ==
    IF n = 0 THEN {<<>>}
    ELSE {d \o p : d \in DigitsOfPairs(n - 1), p \in Pairs}

\* digits with a point after the 4th, 6th, 8th, ... digit when more follow
WithDots(d) ==
    LET n == Len(d)
        dots == IF n <= 4 THEN 0 ELSE (n - 3) \div 2
        digit(i) == IF i <= 4 THEN i ELSE 4 + 2 * ((i - 5) \div 3) + ((i - 5) % 3)
    IN [i \in 1..(n + dots) |->
          IF i > 4 /\ (i - 5) % 3 = 0 THEN "." ELSE d[digit(i)]]

\* the codes get_ancestor_codes is called with: the codes of every level of
\* the schedule (2, 4, ... digits), with and without points
AncestorInputs ==
    UNION {DigitsOfPairs(n) \cup {WithDots(d) : d \in DigitsOfPairs(n)} :
             n \in 1..MaxPairs}

\* bound: candidate lists of up to this length are all tried
MaxCands == 3

\* the candidates dedupe_candidates is called with: two codes, each with two
\* descriptions
CandidateLists ==
    LET cs == {MappingCandidate(c, d) :
                 c \in {<<"6", "1", "0", "9">>, <<"6", "1", "1", "0">>},
                 d \in {<<"a">>, <<"b">>}}
    IN UNION {[1..n -> cs] : n \in 0..MaxCands}

\* the keys and the values of the views extract_quantitative_fields is
\* called with
ViewKeys == {"general", "quotaQuantity", "additionalDuties", "description"}

ViewValues ==
    {None, Str(<<>>), Str(<<" ">>), Str(<<"F", "r", "e", "e">>),
     Str(<<"5", "%">>), Str(<<"2", ".", "5", "0">>),
     Str(<<"1", ",", "0", "0", "0">>), Int_(3), Bool(TRUE),
     List(<<"kg">>), DictValue}

\* bound: views of up to this many fields are all tried
MaxFields == 2

\* the views: items with different keys
Views ==
    UNION {{v \in [1..n -> ViewKeys \X ViewValues] :
              \A i, j \in 1..n : i # j => v[i][1] # v[j][1]} :
           n \in 0..MaxFields}

NoCalled == [fn |-> "", arg |-> <<>>, out |-> <<>>]

PureIdle == called = NoCalled

\* a caller calls get_ancestor_codes(hts_code)
GetAncestorCodesCall ==
    /\ called = NoCalled
    /\ \E code \in AncestorInputs :
         called' = [fn |-> "get_ancestor_codes", arg |-> code,
                    out |-> get_ancestor_codes(code)]
    /\ UNCHANGED pureOthers

\* a caller calls dedupe_candidates(cands)
DedupeCall ==
    /\ called = NoCalled
    /\ \E cands \in CandidateLists :
         called' = [fn |-> "dedupe_candidates", arg |-> cands,
                    out |-> dedupe_candidates(cands)]
    /\ UNCHANGED pureOthers

\* a caller calls extract_quantitative_fields(data)
ExtractCall ==
    /\ called = NoCalled
    /\ \E data \in Views :
         called' = [fn |-> "extract_quantitative_fields", arg |-> data,
                    out |-> extract_quantitative_fields(data)]
    /\ UNCHANGED pureOthers

PureNext ==
    \/ GetAncestorCodesCall
    \/ DedupeCall
    \/ ExtractCall

-----------------------------------------------------------------------------
(* save_result_to_json run by several processes at the same time *)

\* the processes
Savers == {1, 2}

\* the results they save
RaceResults ==
    {DirectResult(Code4, "gso"), DirectResult(Code10, "g"),
     DirectResult(Code6, "s"),
     ErrorResult(Code8,
         ErrorMessage("Exact HTS code not found: {normalized_code}", Code8, <<>>))}

\* what the file holds before they start
RaceFiles ==
    {NoFile, Json(Dict(Code6 :> to_compact_dict(DirectResult(Code6, "g"))))}

\* a process: its position (idle / loaded / opened / done), its argument
\* result, its local stored_results, what it returned, and the processes
\* that had returned when it was called
Saver(pc, r, stored_results, returned, after) ==
    [pc |-> pc, result |-> r, stored_results |-> stored_results,
     ret |-> returned, after |-> after]

RaceIdle == saver = [p \in Savers |-> Saver("idle", None, <<>>, "", {})]

\* the processes that have returned
Finished == {q \in Savers : saver[q].pc = "done"}

\* lines 515-524: the error test, load_stored_results and the test of line
\* 523, by process p called with result r
SaveLoad(p) ==
    /\ saver[p].pc = "idle"
    /\ \E r \in RaceResults :
         saver' = [saver EXCEPT ![p] =
           IF IsErrorResult(r) THEN Saver("done", r, <<>>, "False", Finished)
           ELSE IF LoadRaises(file)
             THEN Saver("done", r, <<>>, "AttributeError", Finished)
           ELSE IF AlreadyStored(r, load_stored_results(file))
             THEN Saver("done", r, load_stored_results(file), "False", Finished)
           ELSE Saver("loaded", r, load_stored_results(file), "", Finished)]
    /\ UNCHANGED file
    /\ UNCHANGED raceOthers

\* line 531: open(RESULTS_JSON_FILE, "w") truncates the file
SaveOpen(p) ==
    /\ saver[p].pc = "loaded"
    /\ file' = NotJson
    /\ saver' = [saver EXCEPT ![p].pc = "opened"]
    /\ UNCHANGED raceOthers

\* lines 532-533: json.dump, the file is closed, return True
SaveDump(p) ==
    /\ saver[p].pc = "opened"
    /\ file' = Written(saver[p].stored_results, saver[p].result)
    /\ saver' = [saver EXCEPT ![p].pc = "done", ![p].ret = "True"]
    /\ UNCHANGED raceOthers

RaceNext ==
    \E p \in Savers :
       \/ SaveLoad(p)
       \/ SaveOpen(p)
       \/ SaveDump(p)

-----------------------------------------------------------------------------
(* Specifications *)

\* the remote services the resolver is checked against
SearchRemotes ==
    UNION {
      {(Code10 :> r10) @@ (Code8 :> r8) @@ (Code6 :> r6) @@ (Code4 :> r4) :
          r8 \in Responses(Code8, r10.data) \cup Misplaced,
          r6 \in Responses(Code6, r10.data) \cup Misplaced,
          r4 \in Responses(Code4, r10.data) \cup Misplaced} :
      r10 \in Responses(Code10, <<Row(OtherCode, OtherCode, "g")>>)}

RetryInit ==
    /\ RetryIdle
    /\ SearchIdle
    /\ MergeIdle
    /\ CacheIdle
    /\ LookupIdle
    /\ RangeIdle
    /\ PureIdle
    /\ RaceIdle
    /\ remote = <<>>
    /\ netlog = <<>>
    /\ file = NoFile

\* one call of _request_with_retry
SpecRetry == RetryInit /\ [][RetryNext]_vars

SearchInit ==
    /\ RetryIdle
    /\ SearchIdle
    /\ MergeIdle
    /\ CacheIdle
    /\ LookupIdle
    /\ RangeIdle
    /\ PureIdle
    /\ RaceIdle
    /\ remote \in SearchRemotes
    /\ netlog = <<>>
    /\ file = NoFile

\* one call of search_hts_quantitative_details against any remote service
SpecSearch == SearchInit /\ [][SearchNext]_vars

MergeInit ==
    /\ RetryIdle
    /\ SearchIdle
    /\ MergeIdle
    /\ CacheIdle
    /\ LookupIdle
    /\ RangeIdle
    /\ PureIdle
    /\ RaceIdle
    /\ remote = <<>>
    /\ netlog = <<>>
    /\ file = NoFile

\* one call of merge_resolved_view on any two rows
SpecMerge == MergeInit /\ [][MergeNext]_vars

\* the remote services the command line is run against
MainRemotes ==
    {(Code10 :> Rows(<<Row(Code10, Code10, "blank")>>))
       @@ (Code8 :> Rows(<<Row(Code8, Code8, "blank")>>))
       @@ (Code6 :> Rows(<<Row(Code6, Code6, "blank")>>))
       @@ (Code4 :> Rows(<<Row(Code4, Code4, "g")>>)),
     (Code10 :> Rows(<<Row(Code10, Code10, "gso")>>))
       @@ (Code8 :> Raises)
       @@ (Code6 :> Rows(<<Header(Code6), Row(Code6, Code6, "s")>>))
       @@ (Code4 :> Rows(<<Row(Code4, Code4, "blank")>>)),
     (Code10 :> Rows(<<>>))
       @@ (Code8 :> Raises)
       @@ (Code6 :> Raises)
       @@ (Code4 :> Raises)}

Init ==
    /\ RetryIdle
    /\ SearchIdle
    /\ MergeIdle
    /\ CacheIdle
    /\ LookupIdle
    /\ RangeIdle
    /\ PureIdle
    /\ RaceIdle
    /\ remote \in MainRemotes
    /\ netlog = <<>>
    /\ file \in InitialFiles

\* runs of the command line (main) and calls of the cache functions, one
\* process at a time, sharing the cache file
Spec == Init /\ [][Next]_vars

LookupInit ==
    /\ RetryIdle
    /\ SearchIdle
    /\ MergeIdle
    /\ CacheIdle
    /\ LookupIdle
    /\ RangeIdle
    /\ PureIdle
    /\ RaceIdle
    /\ remote = <<>>
    /\ netlog = <<>>
    /\ file = NoFile

\* calls of mapping_lookup and runs of main (usitc_mapping.py), one after
\* the other, every fetch with any outcome
SpecLookup == LookupInit /\ [][LookupNext]_vars

RangeInit ==
    /\ RetryIdle
    /\ SearchIdle
    /\ MergeIdle
    /\ CacheIdle
    /\ LookupIdle
    /\ RangeIdle
    /\ PureIdle
    /\ RaceIdle
    /\ remote = <<>>
    /\ netlog = <<>>
    /\ file = NoFile

\* calls of build_hts_range
SpecRange == RangeInit /\ [][RangeNext]_vars

PureInit ==
    /\ RetryIdle
    /\ SearchIdle
    /\ MergeIdle
    /\ CacheIdle
    /\ LookupIdle
    /\ RangeIdle
    /\ PureIdle
    /\ RaceIdle
    /\ remote = <<>>
    /\ netlog = <<>>
    /\ file = NoFile

\* calls of get_ancestor_codes, dedupe_candidates and
\* extract_quantitative_fields on any argument
SpecPure == PureInit /\ [][PureNext]_vars

RaceInit ==
    /\ RetryIdle
    /\ SearchIdle
    /\ MergeIdle
    /\ CacheIdle
    /\ LookupIdle
    /\ RangeIdle
    /\ PureIdle
    /\ RaceIdle
    /\ remote = <<>>
    /\ netlog = <<>>
    /\ file \in RaceFiles

\* two processes, each running save_result_to_json once, their steps
\* interleaved in any order
SpecRace == RaceInit /\ [][RaceNext]_vars

-----------------------------------------------------------------------------
(* Claims about _request_with_retry, checked under SpecRetry *)

IsClientError(o) ==
    o.kind = "HTTPError" /\ 400 <= o.status /\ o.status < 500 /\ o.status # 429

IsRetryableFailure(o) ==
    \/ o.kind \in {"Timeout", "ConnectionError"}
    \/ (o.kind = "HTTPError" /\ (o.status = 429 \/ o.status >= 500))

\* the message template the handler of each failure uses when it does not raise
FmtOfFailure(o) ==
    CASE o.kind = "Timeout"          -> "Request timed out after {timeout}s"
      [] o.kind = "ConnectionError"  -> "Connection error: {e}"
      [] o.kind = "HTTPError"        -> "HTTP error: {e}"
      [] o.kind = "RequestException" -> "Request failed: {e}"
      [] OTHER                       -> "?"

\* C1: an HTTP 4xx response other than 429 is terminal: the attempt that
\* observes it is the last one, the call has failed with an APIError carrying
\* that status code and retries_attempted = the number of attempts made, and
\* no backoff sleep follows it.
C1_ClientErrorIsTerminal ==
    \A i \in 1..Len(outcomes) :
        IsClientError(outcomes[i]) =>
            /\ i = Len(outcomes)
            /\ rpc = "raised"
            /\ ret.t = "APIError"
            /\ ret.status_code = Int_(outcomes[i].status)
            /\ ret.retries_attempted = i
            /\ Len(slept) = i - 1

\* C2: a call makes at least 1 and at most 3 HTTP attempts and, until it has
\* returned or raised, can always take its next step; when the third attempt
\* fails too, the APIError raised is the one built from the third failure:
\* its retries_attempted is 3 and its message is that of the third failure.
C2_AttemptsBoundedLastError ==
    /\ Len(outcomes) <= 3
    /\ rpc \in {"returned", "raised"} => Len(outcomes) >= 1
    /\ rpc \in {"attempt", "backoff", "exhausted"} => ENABLED RetryNext
    /\ rpc \in {"attempt", "backoff"} => attempt < 3 /\ Len(slept) <= attempt
    /\ (rpc = "raised" /\ Len(outcomes) = 3) =>
          /\ ret.t = "APIError"
          /\ ret.retries_attempted = 3
          /\ ret.message.fmt = FmtOfFailure(outcomes[3])
          /\ outcomes[3].kind # "Timeout" => ret.message.e = outcomes[3]

\* C2 witness: three failed attempts of different kinds, then the raise
C2_Witness ==
    /\ rpc = "raised"
    /\ Len(outcomes) = 3
    /\ outcomes[1].kind = "Timeout"
    /\ outcomes[2].kind = "ConnectionError"
    /\ outcomes[3].kind = "HTTPError"
    /\ outcomes[3].status = 503

\* C3: timeouts, connection failures, 429 and 5xx are retryable: after fewer
\* than 3 such failures the call has raised nothing and goes on to another
\* attempt, which can succeed; and when at most 2 such failures are followed
\* by a successful response, the call returns that response.
C3_RetryableThenSuccess ==
    /\ (/\ Len(outcomes) \in 1..2
        /\ \A i \in 1..Len(outcomes) : IsRetryableFailure(outcomes[i]))
         => /\ rpc \in {"backoff", "attempt"}
            /\ ret = None
            /\ rpc = "attempt" => ENABLED AttemptReturns
    /\ \A n \in 0..2 :
         (/\ Len(outcomes) = n + 1
          /\ outcomes[n + 1].kind = "ok"
          /\ \A i \in 1..n : IsRetryableFailure(outcomes[i]))
           => /\ rpc = "returned"
              /\ ret = [t |-> "Response", status |-> 200,
                        body |-> outcomes[n + 1].body]

\* C3 witness: 2 timeouts, then a success that is returned
C3_Witness ==
    /\ rpc = "returned"
    /\ Len(outcomes) = 3
    /\ outcomes[1].kind = "Timeout"
    /\ outcomes[2].kind = "Timeout"
    /\ outcomes[3].kind = "ok"
    /\ ret.t = "Response"

-----------------------------------------------------------------------------
(* Claims about search_hts_quantitative_details, checked under SpecSearch *)

\* a value is a non-blank string: it has a character that is not whitespace
IsNonBlank(x) == x.t = "str" /\ \E i \in 1..Len(x.v) : x.v[i] \notin Whitespace

\* a row carries a duty rate: general, special or other is present and non-blank
Rated(row) == \E f \in {"general", "special", "other"} :
                 f \in DOMAIN row /\ IsNonBlank(row[f])

\* the code of a row as the service gave it, without surrounding whitespace
CodeOf(row) == IF "htsno" \in DOMAIN row /\ row.htsno.t = "str"
                 THEN Strip(row.htsno.v) ELSE <<>>

\* the normalized form of the argument of the call
Normalized == normalize_hts_input(hts_code)

\* the call has returned a result without error
Succeeded == spc = "done" /\ result.error_message = None

NotFoundFmts ==
    {"Exact HTS code not found: {normalized_code}",
     "Exact HTS code not found: {normalized_code} (got {requested_code} instead)"}

\* the service's answer to from = to = code holds no row of that code
NoExactRow(code) ==
    LET resp == fetch_exportlist(code) IN
      ~\E i \in 1..Len(resp.data) : CodeOf(resp.data[i]) = code

\* C4: the first fetch is from = to = normalized code; when the answer holds
\* no row, or the row taken from it has another code than the normalized
\* input, the result is an error result: a not-found message naming the
\* code, no effective duty line, an empty fallback chain, an empty view.
C4_NotFound ==
    (spc = "done" /\ Normalized # <<>>) =>
        /\ netlog # <<>>
        /\ netlog[1] = <<Normalized, Normalized>>
        /\ NoExactRow(Normalized) =>
              /\ result.error_message # None
              /\ result.error_message.fmt \in NotFoundFmts
              /\ result.error_message.code = Normalized
              /\ result.hts_code = Normalized
              /\ result.effective_duty_line = None
              /\ result.effective_hts_code = None
              /\ result.fallback_chain = <<>>
              /\ result.resolved_view = <<>>
              /\ Len(netlog) = 1

\* C4 witness: a row came back for 0901.21.00.00, but of another code
C4_Witness ==
    /\ spc = "done"
    /\ Normalized = Code10
    /\ fetch_exportlist(Code10) = Rows(<<Row(OtherCode, OtherCode, "g")>>)
    /\ result.error_message # None
    /\ result.error_message.got = OtherCode

\* the rows walked: the requested row, then the fetched ancestors in the
\* order fetched (deepest to shallowest)
Walk == <<requested_line>> \o ancestor_lines

\* the remote holds exactly the rows of the example: blank rates on
\* 0901.21.00.00 and on its 8- and 6-digit ancestors, a general rate only on
\* the 4-digit ancestor
ExampleRemote ==
    /\ \A c \in {Code10, Code8, Code6} : remote[c] = Rows(<<Row(c, c, "blank")>>)
    /\ remote[Code4] = Rows(<<Row(Code4, Code4, "g")>>)

\* C5: in a successful resolution the effective duty line is the first row
\* of the walk (requested row, then fetched ancestors, deepest first) that
\* carries a rate, and it is absent, without error, when no row of the walk
\* carries one; for 0901.21.00.00 with a general rate only on the 4-digit
\* ancestor, the effective line is the 4-digit row and the fallback chain is
\* the four codes in order, the 4-digit code last.
C5_EffectiveDutyLine ==
    /\ spc = "done" /\ Normalized # <<>> /\ ~NoExactRow(Normalized) => Succeeded
    /\ Succeeded =>
        /\ (\A i \in 1..Len(Walk) : ~Rated(Walk[i]))
              => /\ result.effective_duty_line = None
                 /\ result.effective_hts_code = None
        /\ \A i \in 1..Len(Walk) :
              (Rated(Walk[i]) /\ \A j \in 1..(i - 1) : ~Rated(Walk[j]))
                => /\ result.effective_duty_line = Walk[i]
                   /\ result.effective_hts_code = Str(CodeOf(Walk[i]))
        /\ (Normalized = Code10 /\ ExampleRemote)
              => /\ result.effective_duty_line = Row(Code4, Code4, "g")
                 /\ result.effective_hts_code = Str(Code4)
                 /\ result.fallback_chain = <<Code10, Code8, Code6, Code4>>

\* C5 witness: the example, resolved
C5_Witness ==
    /\ Succeeded
    /\ Normalized = Code10
    /\ ExampleRemote
    /\ result.effective_hts_code = Str(Code4)
    /\ Len(result.fallback_chain) = 4

\* C6: in a successful resolution with an effective duty line, every
\* non-blank rate field of the resolved view has the effective duty line's
\* value; when the requested line is not the effective line, no non-blank
\* rate of the view is a non-blank rate of the requested line.
C6_RatesFromEffectiveLine ==
    (Succeeded /\ result.effective_duty_line # None) =>
        \A f \in {"general", "special", "other"} :
            (f \in DOMAIN result.resolved_view
             /\ IsNonBlank(result.resolved_view[f]))
              => /\ f \in DOMAIN result.effective_duty_line
                 /\ result.resolved_view[f] = result.effective_duty_line[f]
                 /\ result.effective_duty_line # result.requested_line
                      => ~(/\ f \in DOMAIN result.requested_line
                           /\ IsNonBlank(result.requested_line[f]))

\* C6 witness: the rates of the view come from an ancestor, the other fields
\* from the requested line
C6_Witness ==
    /\ Succeeded
    /\ Normalized = Code10
    /\ result.effective_hts_code = Str(Code6)
    /\ result.resolved_view.special = RateText("special", Code6)
    /\ result.resolved_view.description = result.requested_line.description
    /\ result.requested_line # result.effective_duty_line

-----------------------------------------------------------------------------
(* Claim about merge_resolved_view, checked under SpecMerge *)

\* C7: the view returned is a copy of all the fields of the requested row
\* (of no field when it is absent) in which each of general, special, other
\* that is non-blank on the effective line has the effective line's value,
\* even when the requested row has a non-blank value of its own; every other
\* field, and every rate field blank on the effective line, keeps the
\* requested row's value.
C7_MergeOverlay ==
    mrv_resolved # None =>
        LET view == mrv_resolved.view
            base == IF mrv_requested = None THEN <<>> ELSE mrv_requested
            EffectiveHas(f) == /\ mrv_effective # None
                               /\ f \in DOMAIN mrv_effective
                               /\ IsNonBlank(mrv_effective[f])
            won == {f \in {"general", "special", "other"} : EffectiveHas(f)}
        IN /\ DOMAIN view = DOMAIN base \cup won
           /\ \A k \in won : view[k] = mrv_effective[k]
           /\ \A k \in DOMAIN base \ won : view[k] = base[k]

\* C7 witness: both rows have a general rate, the effective line's wins; the
\* special rate, blank on the effective line, and the units stay
C7_Witness ==
    /\ mrv_resolved # None
    /\ mrv_requested # None
    /\ mrv_effective # None
    /\ DOMAIN mrv_requested = {"general", "special", "other", "htsno", "units"}
    /\ DOMAIN mrv_effective = {"general", "special", "other", "htsno", "units"}
    /\ mrv_requested.general = Str(<<"r", "%">>)
    /\ mrv_requested.special = Str(<<"r", "%">>)
    /\ mrv_effective.general = Str(<<"e", "%">>)
    /\ mrv_effective.special = Str(<<" ">>)
    /\ mrv_resolved.view.general = Str(<<"e", "%">>)
    /\ mrv_resolved.view.special = Str(<<"r", "%">>)
    /\ mrv_resolved.view.units = List(<<"r", "kg">>)

-----------------------------------------------------------------------------
(* Claims about the cache and main, checked under Spec *)

\* the entries of the cache: what a reader of the file finds
Stored(f) == IF LoadRaises(f) THEN <<>> ELSE load_stored_results(f)

\* this step is a call of save_result_to_json
SaveStep == ncalls' = ncalls + 1 /\ last_call'.fn = "save_result_to_json"

C9_SaveReturnsTrueIffWritten ==
    [][/\ SaveStep =>
             LET r == last_call'.arg IN
               /\ last_call'.ret = "True"
                    <=> /\ r.hts_code \notin DOMAIN Stored(file)
                        /\ r.hts_code \in DOMAIN Stored(file')
               /\ last_call'.ret = "True"
                    => /\ r.error_message = None
                       /\ Stored(file')[r.hts_code].hts_code = Str(r.hts_code)
               /\ last_call'.ret # "True" => file' = file
               /\ r.error_message # None
                    => last_call'.ret = "False" /\ file' = file
       /\ (mpc = "searching" /\ mpc' = "done" /\ result.error_message # None)
             => file' = file /\ ~SaveStep]_vars

\* C9 witness: an error result for a code without entry was passed to
\* save_result_to_json, which returned False
C9_Witness ==
    /\ last_call.fn = "save_result_to_json"
    /\ last_call.arg.error_message # None
    /\ last_call.arg.hts_code \notin DOMAIN Stored(file)
    /\ last_call.ret = "False"

\* this run of main has just written the entry of its code
JustSaved ==
    /\ last_call.fn = "save_result_to_json"
    /\ last_call.ret = "True"
    /\ last_call.arg.hts_code = Normalized

\* C10: main consults the cache with the normalized code before any network
\* call: while it resolves, and whenever it has made a network call, the
\* cache had no entry for the code when it was consulted; a run whose code
\* has an entry makes no network call and returns 0 with the stored result.
C10_ReadThroughBeforeNetwork ==
    /\ mpc = "searching"
          => /\ last_call = Call("get_stored_result", Str(Normalized), None)
             /\ Normalized \notin DOMAIN Stored(file)
    /\ netlog # <<>>
          => /\ mpc \in {"searching", "done"}
             /\ Normalized \notin DOMAIN Stored(file) \/ JustSaved
    /\ (mpc = "done" /\ Normalized \in DOMAIN Stored(file) /\ ~JustSaved)
          => /\ netlog = <<>>
             /\ exit_code = Int_(0)
             /\ last_call.fn = "get_stored_result"
             /\ last_call.arg = Str(Normalized)
             /\ result = last_call.ret
             /\ result.error_message = None
             /\ result.hts_code = Normalized

\* C10 witness: an earlier run has stored 0901.21.00.00 (no initial file and
\* no direct save has that code), and this run, whose argument normalizes to
\* it, ends without network call
C10_Witness ==
    /\ mpc = "done"
    /\ hts_code # Code10
    /\ Normalized = Code10
    /\ Code10 \in DOMAIN Stored(file)
    /\ last_call.fn = "get_stored_result"
    /\ netlog = <<>>
    /\ exit_code = Int_(0)

\* C11: after save_result_to_json has stored a result, get_stored_result
\* for its code returns a result whose resolved view has, for each of
\* general, special, other and units that the view had with a non-null
\* value when it was written, the same value.
C11_CacheRoundTrip ==
    (last_call.fn = "save_result_to_json" /\ last_call.ret = "True") =>
        LET r == last_call.arg
            back == get_stored_result(file, r.hts_code)
            written == {f \in {"general", "special", "other", "units"}
                              \cap DOMAIN r.resolved_view :
                          r.resolved_view[f] # None}
        IN /\ back # None
           /\ back # AttributeError
           /\ \A f \in written :
                 /\ f \in DOMAIN back.resolved_view
                 /\ back.resolved_view[f] = r.resolved_view[f]

\* C12: no call of get_stored_result or save_result_to_json, and no run of
\* main, ends with an exception, whatever the file holds.
C12_MalformedCacheTolerated ==
    /\ last_call.fn = "get_stored_result" => last_call.ret # AttributeError
    /\ last_call.fn = "save_result_to_json" => last_call.ret # "AttributeError"
    /\ exit_code # AttributeError

-----------------------------------------------------------------------------
(* Claim about a failed exact fetch, checked under SpecSearch *)

\* C14: when the fetch of the exact row raises APIError, the result is the
\* API-error result of lines 471-475 (message "API error: ... (retries: n)"),
\* not the not-found result.
C14_ApiErrorSurfaced ==
    (spc = "done" /\ Normalized # <<>> /\ fetch_exportlist(Normalized).err) =>
        /\ result.error_message # None
        /\ result.error_message.fmt =
              "API error: {e.message} (retries: {e.retries_attempted})"
        /\ result.error_message.fmt \notin NotFoundFmts

-----------------------------------------------------------------------------
(* Claims about mapping_lookup and main of usitc_mapping.py, checked under
   SpecLookup *)

\* the query holds nothing but whitespace
BlankQuery == \A i \in 1..Len(query) : query[i] \in {" ", "\t", "\n"}

\* mapping_lookup has returned
Returned == lpc = "done" /\ res # None

\* the first fetch of the call failed: _request_with_retry raised, or the
\* body of the response could not be parsed
PrimaryFailed ==
    /\ fetched # <<>>
    /\ \/ fetched[1].t = "APIError"
       \/ fetched[1].body.kind = "not_json"

\* C13: every call of mapping_lookup returns a LookupResult whatever the
\* fetches do (a call that has not returned can take a step, and a finished
\* one holds a LookupResult); the result has mode error iff the first fetch
\* failed; error_message is non-null iff the mode is error, and then
\* candidates is empty and count is 0.
C13_LookupBoundary ==
    /\ lpc \in {"primary", "context", "fallback"} => ENABLED LookupNext
    /\ lpc = "done" =>
          \/ res # None
          \/ from_main /\ lexit = Int_(1) /\ requests_made = <<>>
    /\ Returned =>
          /\ res.t = "LookupResult"
          /\ res.mode \in {"empty", "hybrid", "hts_range", "hts_prefix",
                           "exact_hts", "keyword", "error"}
          /\ res.error_message # None <=> res.mode = "error"
          /\ res.mode = "error" <=> PrimaryFailed
          /\ res.mode = "error" => res.candidates = <<>> /\ res.count = 0

\* C13 witness: the body of the first response was not JSON, and the call
\* returned an error result with the message of that failure
C13_Witness ==
    /\ Returned
    /\ fetched # <<>>
    /\ fetched[1].t = "Response"
    /\ fetched[1].body.kind = "not_json"
    /\ res.mode = "error"
    /\ res.error_message.retries = 0
    /\ res.candidates = <<>>

\* C15: a query that is empty or whitespace only never reaches a fetch and
\* gives mode empty, with no candidates, no error and no request sent.
C15_EmptyQuery ==
    /\ (lpc \in {"primary", "context", "fallback"}) => ~BlankQuery
    /\ (Returned /\ BlankQuery) =>
          /\ res.mode = "empty"
          /\ res.candidates = <<>>
          /\ res.count = 0
          /\ res.error_message = None
          /\ requests_made = <<>>
          /\ fetched = <<>>

\* C15 witness: mapping_lookup(" \t") has returned
C15_Witness ==
    /\ Returned
    /\ ~from_main
    /\ query = <<" ", "\t">>
    /\ res.mode = "empty"

\* the class of a stripped, non-empty query as C16 states it: hybrid when it
\* is digits and dots (with a digit), then whitespace, then a remainder;
\* else exact or prefix when it is digits and dots only; else keyword
ClaimedClass(q) ==
    LET digits == SelectSeq(q, LAMBDA ch : ch \in Digits) IN
      IF \E i \in 1..Len(q) :
            /\ i + 1 < Len(q)
            /\ \A k \in 1..i : q[k] \in Digits \cup {"."}
            /\ \E k \in 1..i : q[k] \in Digits
            /\ q[i + 1] \in {" ", "\t", "\n"}
        THEN "hybrid"
      ELSE IF \A k \in 1..Len(q) : q[k] \in Digits \cup {"."}
        THEN IF Len(digits) \in {4, 6, 8, 10} THEN "exact" ELSE "prefix"
      ELSE "keyword"

\* the class a result mode stands for
ClassOfMode(mode) ==
    CASE mode = "hybrid" -> "hybrid"
      [] mode = "exact_hts" -> "exact"
      [] mode \in {"hts_range", "hts_prefix"} -> "prefix"
      [] OTHER -> mode

\* C16: the mode of every result that is neither empty nor error is the
\* class of the stripped query: hybrid first, then exact or prefix for
\* digits and dots only, keyword for every other string; "61 cotton" is
\* hybrid with prefix 61 and keyword cotton.
C16_Classification ==
    (Returned /\ res.mode \notin {"empty", "error"}) =>
        /\ ClassOfMode(res.mode) = ClaimedClass(Strip(query))
        /\ query = <<"6", "1", " ">> \o Cotton =>
              /\ shape.prefix = <<"6", "1">>
              /\ shape.keyword = Cotton

\* the rows of the first response of the call
ResponseRows ==
    IF fetched # <<>> /\ fetched[1].t = "Response"
         /\ fetched[1].body.kind = "list"
      THEN fetched[1].body.rows
      ELSE <<>>

\* the code and the description of a row, stripped
CodeOfItem(item) ==
    IF "htsno" \in DOMAIN item /\ item.htsno # None
      THEN Strip(item.htsno.v) ELSE <<>>

DescOfItem(item) ==
    IF "description" \in DOMAIN item /\ item.description # None
      THEN Strip(item.description.v) ELSE <<>>

\* the candidate codes of the result are pairwise distinct
DistinctCodes ==
    \A i, j \in 1..Len(res.candidates) :
        res.candidates[i].htsno = res.candidates[j].htsno => i = j

\* every candidate is the first row, among those of `rows` that satisfy
\* Ok, with its code
FirstAmong(rows, Ok(_)) ==
    \A n \in 1..Len(res.candidates) :
        LET c == res.candidates[n] IN
          \E i \in 1..Len(rows) :
              /\ Ok(rows[i])
              /\ CodeOfItem(rows[i]) = c.htsno
              /\ DescOfItem(rows[i]) = c.description
              /\ \A k \in 1..(i - 1) :
                    ~(Ok(rows[k]) /\ CodeOfItem(rows[k]) = c.htsno)

\* C19 as stated: in every result that is no error the candidate codes are
\* pairwise distinct, and the candidate of a code is the first row of the
\* response with that code.
C19_FirstInResponse ==
    (Returned /\ res.mode # "error") =>
        /\ DistinctCodes
        /\ FirstAmong(ResponseRows, LAMBDA item : TRUE)

\* a row that becomes a candidate: it has a code and a description, and in
\* a hybrid lookup its description holds every word of the keyword
Survives(item) ==
    /\ CodeOfItem(item) # <<>>
    /\ DescOfItem(item) # <<>>
    /\ res.mode = "hybrid" =>
          \A w \in 1..Len(Split(Lower(shape.keyword))) :
              Contains(Lower(DescOfItem(item)), Split(Lower(shape.keyword))[w])

\* C19 amended: in every result that is no error the candidate codes are
\* pairwise distinct, and the candidate of a code is the first row with that
\* code among the rows of the response that have a code and a description
\* and, in a hybrid lookup, match the keyword.
C19_FirstAmongSurvivors ==
    (Returned /\ res.mode # "error") =>
        /\ DistinctCodes
        /\ FirstAmong(ResponseRows, Survives)

\* C19 witness: "61 cotton" against rows where 6109 occurs first as wool,
\* then as Cotton: the candidate of 6109 is the second row of that code
C19_Witness ==
    /\ Returned
    /\ res.mode = "hybrid"
    /\ shape.keyword = Cotton
    /\ max_results = 200
    /\ Len(ResponseRows) = 7
    /\ CodeOfItem(ResponseRows[2]) = <<"6", "1", "0", "9">>
    /\ DescOfItem(ResponseRows[2]) = Wool
    /\ res.candidates[1] =
          MappingCandidate(<<"6", "1", "0", "9">>,
                           <<"C", "o", "t", "t", "o", "n">>)
    /\ res.count = 2

\* C20: main returns 0 on success and 1 when the argument is missing, empty
\* or whitespace only, or when the result has mode error.
C20_ExitCodes ==
    (lpc = "done" /\ from_main) =>
        /\ lexit \in {Int_(0), Int_(1)}
        /\ lexit = Int_(1) <=>
              \/ res = None
              \/ BlankQuery
              \/ res.mode = "error"

-----------------------------------------------------------------------------
(* Claims about build_hts_range, checked under SpecRange *)

\* build_hts_range has returned
RangeReturned == range # <<>>

\* the digits of the prefix
DigitsOf(p) == SelectSeq(p, LAMBDA ch : ch \in Digits)

\* d padded on the right with ch to 10 characters
PadTo10(d, ch) == [i \in 1..10 |-> IF i <= Len(d) THEN d[i] ELSE ch]

\* 10 digits in groups of 4-2-2-2
Dotted(x) ==
    <<x[1], x[2], x[3], x[4], ".", x[5], x[6], ".", x[7], x[8], ".",
      x[9], x[10]>>

\* C17: with 10 digits or more the normalized prefix is returned twice;
\* otherwise from is the digits padded with 0 and to the digits padded with
\* 9 to 10 digits, both in groups of 4-2-2-2; "61" gives 6100.00.00.00 and
\* 6199.99.99.99, "6109.10" gives 6109.10.00.00 and 6109.10.99.99.
C17_BuildRange ==
    RangeReturned =>
        LET d == DigitsOf(prefix) IN
          /\ Len(d) >= 10 =>
                range = <<normalize_hts_input(prefix),
                          normalize_hts_input(prefix)>>
          /\ Len(d) < 10 =>
                range = <<Dotted(PadTo10(d, "0")), Dotted(PadTo10(d, "9"))>>
          /\ prefix = <<"6", "1">> =>
                range = <<<<"6", "1", "0", "0", ".", "0", "0", ".", "0", "0",
                            ".", "0", "0">>,
                          <<"6", "1", "9", "9", ".", "9", "9", ".", "9", "9",
                            ".", "9", "9">>>>
          /\ prefix = <<"6", "1", "0", "9", ".", "1", "0">> =>
                range = <<<<"6", "1", "0", "9", ".", "1", "0", ".", "0", "0",
                            ".", "0", "0">>,
                          <<"6", "1", "0", "9", ".", "1", "0", ".", "9", "9",
                            ".", "9", "9">>>>

\* C17 witness: build_hts_range("6109.10") has returned its range
C17_Witness ==
    /\ prefix = <<"6", "1", "0", "9", ".", "1", "0">>
    /\ range[1] = <<"6", "1", "0", "9", ".", "1", "0", ".", "0", "0", ".",
                    "0", "0">>
    /\ range[2] = <<"6", "1", "0", "9", ".", "1", "0", ".", "9", "9", ".",
                    "9", "9">>

\* the order of the characters of codes
CharOrder == <<" ", ".", "0", "1", "2", "3", "4", "5", "6", "7", "8", "9">>
Ord(ch) == CHOOSE i \in 1..Len(CharOrder) : CharOrder[i] = ch

\* a <= b in lexicographic order
RECURSIVE LexLeq(_, _)
LexLeq(a, b) ==
    IF a = <<>> THEN TRUE
    ELSE IF b = <<>> THEN FALSE
    ELSE IF Head(a) = Head(b) THEN LexLeq(Tail(a), Tail(b))
    ELSE Ord(Head(a)) < Ord(Head(b))

\* some full dotted codes whose digits start with the digits d
FullCodesUnder(d) ==
    IF Len(d) > 10 THEN {}
    ELSE {Dotted(PadTo10(d, ch)) : ch \in {"0", "5", "9"}}

\* C18: every full dotted code whose digits start with the digits of the
\* prefix lies between from and to in lexicographic order.
C18_RangeContains ==
    RangeReturned =>
        \A c \in FullCodesUnder(DigitsOf(prefix)) :
            LexLeq(range[1], c) /\ LexLeq(c, range[2])


-----------------------------------------------------------------------------
(* Claims about the fallback chain and the fetches of one resolution,      *)
(* checked under SpecSearch                                                 *)

\* the digits d in groups of 4-2-2-2, as many groups as d fills (d of even
\* length)
RECURSIVE Grouped(_)
Grouped(d) ==
    IF Len(d) <= 4 THEN d
    ELSE Grouped(SubSeq(d, 1, Len(d) - 2)) \o <<".">>
         \o SubSeq(d, Len(d) - 1, Len(d))

\* the 8-, 6- and 4-digit truncations of a code, deepest first, those only
\* that are shorter than the code
TruncationsOf(code) ==
    LET d == DigitsOf(code)
        level(n) == IF Len(d) > n THEN <<Grouped(SubSeq(d, 1, n))>> ELSE <<>>
    IN level(8) \o level(6) \o level(4)

\* the elements of a sequence
Range(s) == {s[i] : i \in 1..Len(s)}

\* C21: in a successful resolution the fallback chain starts with the
\* normalized requested code, holds no code twice, and every later element
\* is an 8-, 6- or 4-digit truncation of the requested code, each with fewer
\* digits than the one before it.
C21_FallbackChain ==
    Succeeded =>
        LET chain == result.fallback_chain IN
          /\ chain # <<>>
          /\ chain[1] = Normalized
          /\ \A i, j \in 1..Len(chain) : i < j => chain[i] # chain[j]
          /\ \A i \in 2..Len(chain) : chain[i] \in Range(TruncationsOf(Normalized))
          /\ \A i, j \in 2..Len(chain) :
                i < j => Len(DigitsOf(chain[i])) > Len(DigitsOf(chain[j]))


\* the service's answer to from = to = code is an error or holds no row
Missing(code) ==
    LET resp == fetch_exportlist(code) IN resp.err \/ resp.data = <<>>

\* the ancestors of the requested code the service has a row for
PresentAncestors ==
    SelectSeq(TruncationsOf(Normalized), LAMBDA a : ~Missing(a))

\* the codes of a sequence of rows
CodesOf(rows) == [i \in 1..Len(rows) |-> CodeOf(rows[i])]

\* C23: a resolution whose exact row is found succeeds whatever the ancestor
\* fetches do; when each ancestor fetch either fails, returns nothing or
\* returns the row of that ancestor, the fallback chain and the hierarchical
\* context hold the requested code and then the ancestors that were
\* returned, deepest first, and no ancestor whose fetch failed or returned
\* nothing.
C23_AncestorFailureNonFatal ==
    /\ (spc = "done" /\ Normalized # <<>> /\ ~NoExactRow(Normalized))
          => result.error_message = None
    /\ (Succeeded /\ \A a \in Range(TruncationsOf(Normalized)) :
                        Missing(a) \/ ~NoExactRow(a))
          => /\ result.fallback_chain = <<Normalized>> \o PresentAncestors
             /\ CodesOf(result.hierarchical_context)
                  = <<Normalized>> \o PresentAncestors

\* C23 witness: for 0901.21.00.00 the 8-digit fetch raised and the 6-digit
\* fetch returned nothing; the chain is the code and its 4-digit ancestor
C23_Witness ==
    /\ Succeeded
    /\ Normalized = Code10
    /\ remote[Code8] = Raises
    /\ remote[Code6] = Rows(<<>>)
    /\ ~NoExactRow(Code4)
    /\ result.fallback_chain = <<Code10, Code4>>
    /\ Len(result.hierarchical_context) = 2

\* the fetches a resolution of the requested code makes when all are made
ExpectedFetches ==
    LET codes == <<Normalized>> \o TruncationsOf(Normalized) IN
      [i \in 1..Len(codes) |-> <<codes[i], codes[i]>>]

\* C24: the fetches made so far are the first fetches of: the exact code,
\* then its 8-, 6- and 4-digit truncations, in that order, at most 4; an
\* ancestor is fetched only after the exact row was returned with the
\* requested code; an error result comes after at most the one exact fetch,
\* and a successful one after all the fetches.
C24_SequentialFetches ==
    /\ Len(netlog) <= 4
    /\ Len(netlog) <= Len(ExpectedFetches)
    /\ netlog = SubSeq(ExpectedFetches, 1, Len(netlog))
    /\ (spc = "fetch_ancestors" \/ Len(netlog) >= 2)
          => /\ requested_line # None
             /\ CodeOf(requested_line) = Normalized
             /\ ~NoExactRow(Normalized)
    /\ (spc = "done" /\ result.error_message # None) => Len(netlog) <= 1
    /\ Succeeded => netlog = ExpectedFetches

\* C24 witness: the resolution of 0901.21.00.00 has made its 4 fetches
C24_Witness ==
    /\ Succeeded
    /\ Normalized = Code10
    /\ netlog = <<<<Code10, Code10>>, <<Code8, Code8>>, <<Code6, Code6>>,
                  <<Code4, Code4>>>>

\* the row recorded in the fallback chain for code c: the first row of the
\* walk with that code
ChainRow(c) ==
    Walk[CHOOSE i \in 1..Len(Walk) :
           /\ CodeOf(Walk[i]) = c
           /\ \A j \in 1..(i - 1) : CodeOf(Walk[j]) # c]

\* C29: in every result effective_hts_code is null or a code of the
\* fallback chain; it is null exactly when the result is an error or no row
\* recorded in the chain carries a rate; an error result has an empty chain
\* and an empty view.
C29_EffectiveCodeInChain ==
    spc = "done" =>
        LET chain == result.fallback_chain
            eff == result.effective_hts_code
        IN /\ eff # None => (eff.t = "str" /\ eff.v \in Range(chain))
           /\ result.error_message # None
                => /\ eff = None
                   /\ chain = <<>>
                   /\ result.resolved_view = <<>>
           /\ result.error_message = None
                => (eff = None <=> \A c \in Range(chain) : ~Rated(ChainRow(c)))

\* C29 witness: the whole hierarchy of 0901.21.00.00 has blank rates, and
\* the result has the four codes in its chain and no effective code
C29_Witness ==
    /\ Succeeded
    /\ Normalized = Code10
    /\ Len(result.fallback_chain) = 4
    /\ result.effective_hts_code = None
    /\ result.effective_duty_line = None


-----------------------------------------------------------------------------
(* Claim about the backoff of _request_with_retry, checked under SpecRetry *)

\* the delays of the spec: 1 second before the first retry, 2 before the
\* second
SpecDelays == <<1, 2>>

\* C25: the i-th sleep lasts 1 * 2^(i-1) seconds; it follows the i-th
\* attempt, which failed with an error that is not terminal (not a 4xx
\* other than 429), and precedes attempt i + 1; a call that has returned or
\* raised has slept once less than it made attempts: not after its last
\* attempt, a success or a terminal error.
C25_Backoff ==
    /\ Len(slept) <= Len(SpecDelays)
    /\ slept = SubSeq(SpecDelays, 1, Len(slept))
    /\ Len(slept) <= Len(outcomes)
    /\ \A i \in 1..Len(slept) :
          /\ outcomes[i].kind # "ok"
          /\ ~IsClientError(outcomes[i])
    /\ rpc = "attempt" => Len(slept) = Len(outcomes)
    /\ rpc \in {"returned", "raised"} => Len(slept) = Len(outcomes) - 1


-----------------------------------------------------------------------------
(* Claims about functions without side effect, checked under SpecPure *)

\* C22: get_ancestor_codes returns the 8-, 6- and 4-digit truncations of the
\* code, with points, deepest first, those only that are shorter than the
\* code: three for a code of 10 digits ("0901.21.00.00" gives "0901.21.00",
\* "0901.21", "0901"), two for 8 digits, one for 6, none for 4.
C22_AncestorCodes ==
    called.fn = "get_ancestor_codes" =>
        LET n == Len(DigitsOf(called.arg)) IN
          /\ called.out = TruncationsOf(called.arg)
          /\ n >= 10 => Len(called.out) = 3
          /\ n = 8 => Len(called.out) = 2
          /\ n = 6 => Len(called.out) = 1
          /\ n <= 4 => called.out = <<>>
          /\ called.arg = Code10 => called.out = <<Code8, Code6, Code4>>

\* C22 witness: the example of the claim
C22_Witness ==
    /\ called.fn = "get_ancestor_codes"
    /\ called.arg = Code10
    /\ called.out = <<Code8, Code6, Code4>>

\* the candidates of x whose code no earlier candidate of x has, in the
\* order of x, from index i on
RECURSIVE FirstOccurrences(_, _)
FirstOccurrences(x, i) ==
    IF i > Len(x) THEN <<>>
    ELSE (IF \A j \in 1..(i - 1) : x[j].htsno # x[i].htsno
            THEN <<x[i]>> ELSE <<>>)
         \o FirstOccurrences(x, i + 1)

\* C27: dedupe_candidates(x) is the subsequence of x made of the first
\* candidate of each code, in the order of x, and applying dedupe_candidates
\* to it again gives the same list.
C27_DedupeIdempotent ==
    called.fn = "dedupe_candidates" =>
        /\ called.out = FirstOccurrences(called.arg, 1)
        /\ dedupe_candidates(called.out) = called.out

\* C27 witness: a code comes twice with different descriptions, another
\* code between them; the first one and the other code are kept
C27_Witness ==
    /\ called.fn = "dedupe_candidates"
    /\ Len(called.arg) = 3
    /\ called.arg[1].htsno = called.arg[3].htsno
    /\ called.arg[1].description # called.arg[3].description
    /\ called.arg[2].htsno # called.arg[1].htsno
    /\ called.out = <<called.arg[1], called.arg[2]>>

\* the tag of the variant of a value
KindOf(value) ==
    CASE value.t = "none" -> "null"
      [] value.t \in {"int", "float"} -> "number"
      [] value.t = "str" -> "string"
      [] value.t = "bool" -> "boolean"
      [] value.t = "list" -> "list"
      [] OTHER -> "other"

\* C28: for each priority field of the view, whatever its value, null
\* included, extract_quantitative_fields emits a detail with that name, and
\* the data_type of every detail of a priority field is the tag of the
\* variant of its value.
C28_PriorityFieldsEmitted ==
    called.fn = "extract_quantitative_fields" =>
        /\ \A i \in 1..Len(called.arg) :
              InList(called.arg[i][1], priority_fields)
                => \E k \in 1..Len(called.out) :
                      called.out[k].field_name = called.arg[i][1]
        /\ \A k \in 1..Len(called.out) :
              InList(called.out[k].field_name, priority_fields)
                => called.out[k].data_type = KindOf(called.out[k].value)


-----------------------------------------------------------------------------
(* Claim about concurrent saves, checked under SpecRace *)

\* process p has returned True
Wrote(p) == saver[p].pc = "done" /\ saver[p].ret = "True"

\* the calls of p and q overlapped: neither had returned when the other
\* was called
Overlapped(p, q) == q \notin saver[p].after /\ p \notin saver[q].after

\* every process has returned
AllReturned == \A p \in Savers : saver[p].pc = "done"

====
